---- MODULE Spec2Model ----
(***************************************************************************)
(* Mission Control dashboard: the hash router of static/js/app.js and the   *)
(* page renderers of static/js/pages/*.js (home, calendar, content, gbp,    *)
(* reviews, brand-audit, assets, settings) and of the AEO, quality,         *)
(* reactivation and post-detail modules.                                    *)
(*                                                                         *)
(* JavaScript is single-threaded: every action below is one event-loop     *)
(* task together with the microtasks it triggers (an event handler up to   *)
(* its first await, or the arrival of one HTTP response together with the  *)
(* promise continuations it makes runnable).                               *)
(*                                                                         *)
(* Strings are sequences of tokens; a token stands for one character or    *)
(* for a run of characters that has no separator or markup character in    *)
(* it.  The empty string is << >>.                                         *)
(***************************************************************************)
EXTENDS Integers, Sequences, FiniteSets, TLC

VARIABLES
    \* ---- page renderer under test (static/js/pages/*.js) ----
    pg,               \* the page module whose renderer is exercised
    containerExists,  \* document.getElementById('page-<pg>') finds an element
    container,        \* what the page container shows
    invs,             \* the render() invocations so far, in invocation order
    handle,           \* module field _funnelChart / _chart / _calendar
    live,             \* chart/calendar instances created and not destroyed
    made,             \* number of chart/calendar instances created so far
    selected,         \* PageQuality._selectedRun
    clicks,           \* user clicks handled so far
    cached,           \* module field `container` (content, quality, post-detail)
    fetches,          \* HTTP requests issued for the page so far
    ticks,            \* the $nextTick callbacks of switchToFunnel not yet run
    \* ---- router (static/js/app.js) ----
    hash,             \* window.location.hash without the leading '#'
    started,          \* init() has run
    focus,            \* the page key the navigation inputs are drawn around
    currentPage,
    pageTitle,
    pageSubtitle,
    routeParams,      \* this._routeParams
    activeCompany,
    loads,            \* the loadPage() invocations so far, in invocation order
    queued,           \* $nextTick callbacks of handleRoute that have not run yet
    hashEvents,       \* hashchange events fired and not yet dispatched
    calendarShown,    \* #page-calendar holds the calendar with its events
    fade,             \* the fade classes of the shared #page-container
    \* ---- API client (static/js/api.js) ----
    call,             \* the API.get / API.post / API.put call under test
    \* ---- mutation actions (post-detail and content pages) ----
    mpage,            \* the page whose action buttons are exercised
    \* ---- AEO page table (PageAEO.render) ----
    aeoBody,          \* the body answered to /aeo/queries
    aeoTable,         \* the rows of the rendered query table
    \* ---- content page (PageContent) ----
    ctView,           \* what #page-content shows
    ctStats,          \* _stats
    ctArticles,       \* _articles
    ctFilter,         \* _filterStatus
    ctQuery,          \* _searchQuery
    ctSelected,       \* _selectedArticle
    ctCompany,        \* _company
    ctServer,         \* the status of the article on the server
    ctRenders,        \* the invocations of render, in order
    ctActs,           \* the approve/publish handlers started, in order
    ctTimers,         \* the pending search-debounce timers
    ctClosed,         \* history: the user closed the panel, and since then
                      \* selected no article and no render was invoked
    \* ---- post-detail page (PagePostDetail) ----
    pdServer,         \* the post on the server: content and status
    pdView,           \* what #page-post-detail shows, with the post object
                      \* its handlers were bound to
    pdRenders,        \* the invocations of render, in order
    pdSaves,          \* the save handlers started, in order
    pdReqs,           \* the approve/reject/reschedule handlers started, in order
    pdTimers          \* the pending 4000 ms timers of _showFeedback, oldest first

pageVars == <<pg, containerExists, container, invs, handle, live, made, selected, clicks,
              cached, fetches, ticks>>
routerVars == <<hash, started, focus, currentPage, pageTitle, pageSubtitle,
                routeParams, activeCompany, loads, queued, hashEvents,
                calendarShown, fade>>
apiVars == <<call>>
mutVars == <<mpage>>
aeoVars == <<aeoBody, aeoTable>>
contentVars == <<ctView, ctStats, ctArticles, ctFilter, ctQuery, ctSelected, ctCompany,
                 ctServer, ctRenders, ctActs, ctTimers, ctClosed>>
detailVars == <<pdServer, pdView, pdRenders, pdSaves, pdReqs, pdTimers>>
auxVars == <<apiVars, mutVars, aeoVars, contentVars, detailVars>>
notApi == <<pageVars, routerVars, mutVars, aeoVars, contentVars, detailVars>>
notAeo == <<pageVars, routerVars, apiVars, mutVars, contentVars, detailVars>>
notContent == <<pageVars, routerVars, apiVars, mutVars, aeoVars, detailVars>>
notDetail == <<pageVars, routerVars, apiVars, mutVars, aeoVars, contentVars>>
vars == <<pageVars, routerVars, auxVars>>

(***************************************************************************)
(* Bounds of the model.                                                    *)
(***************************************************************************)
MaxRenders == 2      \* runs of render() / init() of the page under test
MaxRequests == 8     \* HTTP requests issued for the page under test
MaxClicks == 2       \* user clicks on the rendered page
MaxLoads == 2        \* loadPage() invocations of the router
MaxHashLen == 3      \* tokens in a URL fragment
MaxQueries == 3      \* entries of the /aeo/queries answer
MaxContentRenders == 2   \* invocations of PageContent.render
MaxContentActions == 1   \* approve/publish clicks on the content page
MaxDetailRenders == 2    \* invocations of PagePostDetail.render
MaxSaves == 1            \* save clicks on the post-detail page
MaxDetailActions == 2
MaxTimers == 2           \* pending search-debounce timers of the content page
MaxFeedbacks == 2        \* pending feedback timers when a malformed date is entered

(***************************************************************************)
(* JavaScript values that cross a call boundary.  v is always a sequence:  *)
(* one string for a string value, the elements for an array.  A string is  *)
(* a sequence of tokens; the query parameters of the API client, whose     *)
(* encoding is computed, are sequences of code points.                     *)
(***************************************************************************)
JsUndefined == [t |-> "undefined", v |-> << >>]
JsNull == [t |-> "null", v |-> << >>]
JsStr(s) == [t |-> "string", v |-> <<s>>]
JsArr(list) == [t |-> "array", v |-> list]
\* !x for the values above
Falsy_Never(x) == FALSE
Falsy(x) == \/ x.t \in {"undefined", "null"}
            \/ x.t = "string" /\ x.v[1] = << >>

(***************************************************************************)
(* API client: static/js/api.js.                                           *)
(***************************************************************************)
DigitChars == <<"0", "1", "2", "3", "4", "5", "6", "7", "8", "9">>

\* String(n) for a natural number: its decimal digits.
RECURSIVE Digits(_)
Digits(n) ==
    IF n < 10 THEN <<DigitChars[n + 1]>>
    ELSE Digits(n \div 10) \o <<DigitChars[(n % 10) + 1]>>

\* The same digits as code points ("0" is 48).
RECURSIVE DigitCodes(_)
DigitCodes(n) ==
    IF n < 10 THEN <<48 + n>> ELSE DigitCodes(n \div 10) \o <<48 + (n % 10)>>
\* A number; v holds the code points of String(n).
JsNum(n) == [t |-> "number", v |-> <<DigitCodes(n)>>]

\* HTTP statuses a response can carry, and res.statusText.
Statuses == {200, 204, 304, 404, 500}
StatusText(st) ==
    CASE st = 200 -> "OK"
      [] st = 204 -> "No Content"
      [] st = 304 -> "Not Modified"
      [] st = 404 -> "Not Found"
      [] OTHER -> "Internal Server Error"

\* res.ok
ResOk_Below400(st) == st >= 200 /\ st <= 399
ResOk(st) == st >= 200 /\ st <= 299

\* `API ${res.status}: ${res.statusText}`
ApiErrorMessage(st) == <<"API ">> \o Digits(st) \o <<": ", StatusText(st)>>

\* The params object of API.get: its entries in insertion order, keys
\* distinct.
ParamKeys == {"company", "status"}
\* The string values are sequences of code points; a value in
\* 55296..57343 stands for a lone surrogate of the JavaScript string.
ParamValues ==
    {JsNull, JsUndefined, JsStr(<< >>), JsNum(0),
     JsStr(<<117, 115, 45, 102, 114, 97, 109, 105, 110, 103>>),   \* us-framing
     JsStr(<<82, 38, 68>>),                                       \* R&D
     JsStr(<<97, 43, 98, 61, 53, 48, 37>>),                       \* a+b=50%
     JsStr(<<99, 97, 102, 233, 10, 53, 8364>>),    \* caf, e acute, line feed, 5, euro sign
     JsStr(<<32, 1, 127, 160, 252, 96, 42, 126>>), \* space, U+0001, DEL, U+00A0,
                                                   \* u umlaut, grave accent, *, ~
     JsStr(<<128512, 55357>>)}                     \* U+1F600, a lone surrogate
ParamEntries == [k : ParamKeys, v : ParamValues]
ParamObjects ==
    {<< >>} \cup {<<e>> : e \in ParamEntries}
            \cup {pr \in {<<e, f>> : e \in ParamEntries, f \in ParamEntries} :
                     pr[1].k # pr[2].k}

\* v !== null && v !== undefined && v !== ''   (negated)
Omitted_WhenFalsy(val) ==
    \/ val.t \in {"null", "undefined"}
    \/ val.t = "string" /\ val.v[1] = << >>
    \/ val.t = "number" /\ val.v[1] = <<48>>
Omitted(val) ==
    \/ val.t \in {"null", "undefined"}
    \/ val.t = "string" /\ val.v[1] = << >>

\* The string searchParams.set stores for a value: String(v).  (null and
\* undefined never get here.)
StringOf(val) ==
    CASE val.t \in {"string", "number"} -> val.v[1]
      [] val.t = "null" -> <<110, 117, 108, 108>>
      [] OTHER -> <<117, 110, 100, 101, 102, 105, 110, 101, 100>>

\* url.toString() writes the query with the application/x-www-form-urlencoded
\* serializer.  The value is first made a string of scalar values: a lone
\* surrogate becomes U+FFFD.
Scalar(c) == IF c >= 55296 /\ c <= 57343 THEN 65533 ELSE c
\* Letters, digits, "*", "-", "." and "_" are written as they are.
Unreserved(c) ==
    \/ c >= 48 /\ c <= 57
    \/ c >= 65 /\ c <= 90
    \/ c >= 97 /\ c <= 122
    \/ c \in {42, 45, 46, 95}
\* The bytes of the UTF-8 form of a scalar value.
Utf8(c) ==
    IF c < 128 THEN <<c>>
    ELSE IF c < 2048 THEN <<192 + (c \div 64), 128 + (c % 64)>>
    ELSE IF c < 65536
    THEN <<224 + (c \div 4096), 128 + ((c \div 64) % 64), 128 + (c % 64)>>
    ELSE <<240 + (c \div 262144), 128 + ((c \div 4096) % 64),
           128 + ((c \div 64) % 64), 128 + (c % 64)>>
\* "%" and the two upper-case hexadecimal digits of a byte.
HexCode(d) == IF d < 10 THEN 48 + d ELSE 55 + d
PercentByte(b) == <<37, HexCode(b \div 16), HexCode(b % 16)>>
\* One code point of the value: unchanged, "+" for the space, or the
\* percent-encoded bytes of its UTF-8 form.
UrlEncodeChar(c) ==
    IF Unreserved(c) THEN <<c>>
    ELSE IF c = 32 THEN <<43>>
    ELSE LET bytes == Utf8(Scalar(c))
             F[i \in 0..Len(bytes)] ==
                IF i = 0 THEN << >> ELSE F[i - 1] \o PercentByte(bytes[i])
         IN  F[Len(bytes)]
RECURSIVE UrlEncode(_)
UrlEncode(str) ==
    IF str = << >> THEN << >> ELSE UrlEncodeChar(Head(str)) \o UrlEncode(Tail(str))

\* url.searchParams.set(k, v) on the query q: the first pair named k gets
\* the value and the other pairs named k are removed; appended when absent.
SearchParamsSet(q, k, val) ==
    IF \E i \in 1..Len(q) : q[i].k = k
    THEN LET first == CHOOSE i \in 1..Len(q) :
                         q[i].k = k /\ \A j \in 1..(i - 1) : q[j].k # k
             F[i \in 0..Len(q)] ==
                IF i = 0 THEN << >>
                ELSE IF i = first THEN Append(F[i - 1], [k |-> k, v |-> val])
                ELSE IF q[i].k = k THEN F[i - 1]
                ELSE Append(F[i - 1], q[i])
         IN  F[Len(q)]
    ELSE Append(q, [k |-> k, v |-> val])

\* Object.entries(params).forEach(...): the query string of the request URL,
\* as the sequence of its name=value pairs.
BuildQuery(params) ==
    LET F[i \in 0..Len(params)] ==
          IF i = 0 THEN << >>
          ELSE IF Omitted(params[i].v) THEN F[i - 1]
          ELSE SearchParamsSet(F[i - 1], params[i].k, UrlEncode(StringOf(params[i].v)))
    IN  F[Len(params)]

\* Outcomes of an API call's promise.
CallPending == [kind |-> "pending", msg |-> << >>, body |-> "none"]
CallResolved == [kind |-> "resolved", msg |-> << >>, body |-> "parsed"]
CallRejected(m) == [kind |-> "rejected", msg |-> m, body |-> "none"]

NoCall == [method |-> "none", params |-> << >>, query |-> << >>, body |-> "none",
           sent |-> 0, phase |-> "none", responded |-> FALSE, status |-> 0,
           result |-> CallPending]

\* API.get(path, params) up to `await fetch(url.toString())`.
ApiGet(params) ==
    /\ call.phase = "none"
    /\ params \in ParamObjects
    /\ call' = [NoCall EXCEPT !.method = "GET", !.params = params,
                              !.query = BuildQuery(params),
                              !.sent = 1, !.phase = "fetching"]
    /\ UNCHANGED notApi

\* API.post(path, body) / API.put(path, body) up to `await fetch(...)`.
RequestBodies == {"{}", "{\"scheduled_date\":\"2026-01-01\"}"}
ApiSend(method, body) ==
    /\ call.phase = "none"
    /\ method \in {"POST", "PUT"}
    /\ body \in RequestBodies
    /\ call' = [NoCall EXCEPT !.method = method, !.body = body,
                              !.sent = 1, !.phase = "fetching"]
    /\ UNCHANGED notApi

\* The message property of the errors an API call can reject with, other
\* than the `API ...` error thrown for a response that is not ok.
FetchFailedMsg == <<"Failed to fetch">>
JsonErrorMsg == <<"Unexpected end of JSON input">>
BodyFailedMsg == <<"network error">>

\* `await fetch(...)` resolves with a response of status st:
\* if (!res.ok) throw ...; return res.json();  the call's promise follows
\* the promise of res.json(), which settles when the body has been read.
FetchResponds(st) ==
    /\ call.phase = "fetching"
    /\ st \in Statuses
    /\ call' = IF ResOk(st)
               THEN [call EXCEPT !.phase = "reading", !.responded = TRUE, !.status = st]
               ELSE [call EXCEPT !.phase = "done", !.responded = TRUE, !.status = st,
                                 !.result = CallRejected(ApiErrorMessage(st))]
    /\ UNCHANGED notApi

\* res.json() settles: the body was read and parsed ("parsed"), was read
\* and is not JSON ("syntax": a SyntaxError), or the connection broke while
\* it was read ("stream": a TypeError).
BodyOutcomes == {"parsed", "syntax", "stream"}
JsonSettles(how) ==
    /\ call.phase = "reading"
    /\ how \in BodyOutcomes
    /\ call' = [call EXCEPT
                  !.phase = "done",
                  !.result = CASE how = "parsed" -> CallResolved
                               [] how = "syntax" -> CallRejected(JsonErrorMsg)
                               [] OTHER -> CallRejected(BodyFailedMsg)]
    /\ UNCHANGED notApi

\* fetch rejects (network failure): the rejection propagates to the caller.
FetchFails ==
    /\ call.phase = "fetching"
    /\ call' = [call EXCEPT !.phase = "done", !.result = CallRejected(FetchFailedMsg)]
    /\ UNCHANGED notApi

ApiAtRest == call = NoCall

(***************************************************************************)
(* Mutation actions: PagePostDetail._bindEvents (approve, reject,          *)
(* reschedule) and PageContent._bindEvents (approve, publish).  The        *)
(* handlers themselves are in the sections of the two pages below.         *)
(***************************************************************************)
MutationPages == {"post-detail", "content"}

\* The status the server gives the record when it accepts the action.
StatusAfter(kind) ==
    CASE kind = "approve" -> "approved"
      [] kind = "reject" -> "rejected"
      [] kind = "publish" -> "published"
      [] OTHER -> "scheduled"

\* The data a handler keeps for the redraw after its action: the answer of
\* the requests it issued after the action completed
\* (this._stats = stats; this._articles = articles).
DataAfterRefetch_Patched(old, fetched, kind) == [old EXCEPT !.status = StatusAfter(kind)]
DataAfterRefetch(old, fetched, kind) == fetched

MutAtRest == mpage = "content"


(***************************************************************************)
(* Page modules.                                                           *)
(***************************************************************************)
PageKeys == {"home", "calendar", "post-detail", "content", "gbp", "aeo", "reviews",
             "brand-audit", "assets", "quality", "reactivation", "settings"}

\* The requests a render issues and joins with Promise.all (one request for
\* calendar and post-detail).
Requests(p) ==
    CASE p = "home" -> {"summary", "funnel", "gbp", "posts"}
      [] p = "calendar" -> {"events"}
      [] p = "post-detail" -> {"post"}
      [] p = "content" -> {"stats", "list"}
      [] p = "gbp" -> {"locations", "insights"}
      [] p = "aeo" -> {"queries", "stats"}
      [] p = "reviews" -> {"list", "summary"}
      [] p = "brand-audit" -> {"list", "summary"}
      [] p = "assets" -> {"list", "stats"}
      [] p = "quality" -> {"stats", "runs"}
      [] p = "reactivation" -> {"leads", "funnel", "metrics", "sequences"}
      [] p = "settings" -> {"tokens", "companies", "system"}

\* Requests with their own .catch(() => default): home.js line 26.
OptionalRequests_None(p) == {}
OptionalRequests(p) == IF p = "home" THEN {"posts"} ELSE {}

\* Requests whose 2xx body `null` makes the code after the await throw a
\* TypeError (a property read of null that is not guarded by `x && x.y` or
\* `x || default`): summary.linkedin, funnel.total, post.company_slug,
\* leadsRes.leads, tokensRes.tokens, locations.locations, ...
NullThrows(p) ==
    CASE p = "home" -> {"summary", "funnel"}
      [] p = "calendar" -> {}
      [] p = "post-detail" -> {"post"}
      [] p = "content" -> {}
      [] p = "quality" -> {}
      [] p = "reactivation" -> {"leads", "metrics", "sequences"}
      [] p = "settings" -> {"tokens", "companies"}
      [] OTHER -> Requests(p)

\* Pages rendered as an Alpine component: render() writes the template and
\* returns; the component's init() fetches.
AlpinePages == {"reactivation", "settings"}

\* What the catch clause around the fetch does: "panel" writes the error
\* panel into the container, "log" only calls console.error, "none" stands
\* for no catch clause (the error propagates to the caller).
CatchKind_PostDetailUncaught(p) ==
    IF p = "post-detail" THEN "none"
    ELSE IF p \in AlpinePages THEN "log" ELSE "panel"
CatchKind(p) == IF p \in AlpinePages THEN "log" ELSE "panel"

\* The argument values the router passes to render (app.js loadPage).
Companies == {<<"us-framing">>}
PostIds == {<<"42">>}
ArgsOf(p) ==
    CASE p = "post-detail" -> {JsUndefined, JsStr(<< >>)} \cup {JsStr(s) : s \in PostIds}
      [] p = "settings" -> {JsUndefined}
      [] OTHER -> {JsNull} \cup {JsStr(c) : c \in Companies}

(***************************************************************************)
(* Error messages and their HTML escaping.                                 *)
(***************************************************************************)
ErrMsgs == { <<"API 500: Internal Server Error">>,
             <<"API 404: ", "<", "Not Found", ">", " ", "&", " gone">> }
TypeErrMsg == <<"Cannot read properties of null">>

\* _esc: div.textContent = str; return div.innerHTML
EscChar(c) == CASE c = "&" -> "&amp;"
                [] c = "<" -> "&lt;"
                [] c = ">" -> "&gt;"
                [] OTHER -> c
Esc(str) == [k \in 1..Len(str) |-> EscChar(str[k])]

(***************************************************************************)
(* The query table of the AEO page: PageAEO.render after its await.        *)
(***************************************************************************)
\* JSON values of the answer.  items: the elements when the value is an
\* array; prop: the value of the `queries` property when it is an object.
Val(t, items) == [t |-> t, items |-> items]
UndefinedVal == Val("undefined", << >>)
Body(t, items, prop) == [t |-> t, items |-> items, prop |-> prop]

\* The query texts an entry can carry.
QueryTexts == {<<"roofing contractor">>, <<"a", "<", "b">>, << >>}
QueryLists == UNION {[1..n -> QueryTexts] : n \in 0..MaxQueries}

AeoBodies ==
    {Body("object", << >>, Val("array", l)) : l \in QueryLists}    \* { queries: [...] }
       \cup {Body("array", l, UndefinedVal) : l \in QueryLists}     \* [...]
       \cup {Body("object", << >>, UndefinedVal),                   \* {}
             Body("object", << >>, Val("null", << >>)),             \* { queries: null }
             Body("null", << >>, UndefinedVal)}                     \* null

\* Truthiness: every object and every array, the empty one included.
Truthy(val) == val.t \in {"object", "array"}

\* queries.queries || queries || []
QueriesOf(body) ==
    IF Truthy(body.prop) THEN body.prop
    ELSE IF Truthy(body) THEN Val(body.t, body.items)
    ELSE Val("array", << >>)

\* Array.isArray(qs) && qs.length
HasRows_AnyArray(qs) == qs.t = "array"
HasRows(qs) == qs.t = "array" /\ Len(qs.items) > 0

EmptyStateRow == [kind |-> "empty-state", text |-> <<"No queries tracked">>]

\* <tbody>: qs.map(q => row).join('') or the empty-state row.
TableRows(qs) ==
    IF HasRows(qs)
    THEN [i \in 1..Len(qs.items) |-> [kind |-> "query", text |-> Esc(qs.items[i])]]
    ELSE <<EmptyStateRow>>

AeoPending == <<[kind |-> "skeleton", text |-> << >>]>>
AeoError == <<[kind |-> "error", text |-> TypeErrMsg]>>

\* The requests of PageAEO.render are answered with `aeoBody` for
\* /aeo/queries; reading .queries of null throws into the catch clause.
AeoRender ==
    /\ aeoTable = AeoPending
    /\ aeoTable' = IF aeoBody.t = "null" THEN AeoError ELSE TableRows(QueriesOf(aeoBody))
    /\ UNCHANGED aeoBody
    /\ UNCHANGED notAeo

AeoAtRest ==
    /\ aeoBody = Body("object", << >>, UndefinedVal)
    /\ aeoTable = AeoPending

(***************************************************************************)
(* The content page: PageContent (content.js).                             *)
(***************************************************************************)
\* The company filter render is called with: "all" stands for null.
ContentCompanies == {"all", "us-framing"}
ArticleStatuses == {"draft", "review", "approved", "published"}
\* The one article of the library; it belongs to us-framing.
ArticleId == <<"7">>
ActionErrMsgs == {<<"API 500: Internal Server Error">>}
FilterValues == {"", "draft"}
SearchValues == {<<"roof">>}

\* An answer of /content/stats or /content/articles: the company it was
\* asked for, the request that asked (render k: k, refresh of handler m: -m)
\* and the article's status when it was answered.
NoFetched == [by |-> 0]
Data(co, by, status) == [co |-> co, by |-> by, status |-> status]
NoArticle == [id |-> << >>]

\* articles.find(a => String(a.id) === String(id))
Find(articles) ==
    IF articles = NoFetched THEN NoArticle
    ELSE [id |-> ArticleId, status |-> articles.status]

\* _getFilteredArticles as drawn: the article's card is in the list when the
\* status filter admits it (every search value used occurs in its title).
CardShown(shown) ==
    /\ shown.articles # NoFetched
    /\ (shown.filter = "" \/ shown.articles.status = shown.filter)

\* The button the detail panel offers for an article (isDraft || isReview,
\* isApproved).
ButtonsFor(article) ==
    IF article = NoArticle THEN {}
    ELSE CASE article.status \in {"draft", "review"} -> {"approve"}
           [] article.status = "approved" -> {"publish"}
           [] OTHER -> {}

SuccessText(kind) == IF kind = "approve" THEN <<"Article approved">> ELSE <<"Article published">>

\* The container's content.
CtView(kind, stats, articles, filter, query, panel, msg) ==
    [kind |-> kind, stats |-> stats, articles |-> articles, filter |-> filter,
     query |-> query, panel |-> panel, msg |-> msg, feedback |-> << >>, disabled |-> {}]
\* container: null before the first render
CtNone == [kind |-> "none"]
\* _renderLoading
CtLoading == CtView("loading", NoFetched, NoFetched, "", << >>, NoArticle, << >>)
\* _renderError(message)
CtError(message) == CtView("error", NoFetched, NoFetched, "", << >>, NoArticle, Esc(message))
\* _renderPage: the page drawn from the module's fields.
RenderPage(stats, articles, filter, query, sel) ==
    CtView("content", stats, articles, filter, query, sel, << >>)

\* _showDetailFeedback: writes into #ct-detail-msg of the current container
\* content when that element exists (the detail panel is drawn).
ShowDetailFeedback(shown, message) ==
    IF shown.kind = "content" /\ shown.panel # NoArticle
    THEN [shown EXCEPT !.feedback = message]
    ELSE shown

\* A button element that was replaced by a redraw is no longer in the page.
Detached(acts) == [m \in 1..Len(acts) |-> [acts[m] EXCEPT !.attached = FALSE]]

\* The pending search-debounce timers, oldest first.  debounceTimer is a
\* local of one _bindEvents call, so clearTimeout reaches only the timer
\* that was started from the search input now in the page (attached); the
\* timers started from inputs that a redraw replaced stay pending.
DetachedTimers(timers) == [t \in 1..Len(timers) |-> [timers[t] EXCEPT !.attached = FALSE]]
ClearTimeout(timers) ==
    IF Len(timers) > 0 /\ timers[Len(timers)].attached
    THEN SubSeq(timers, 1, Len(timers) - 1) ELSE timers

\* PageContent.render(company) up to its await.
ContentRender(company) ==
    /\ Len(ctRenders) < MaxContentRenders
    /\ ctView' = CtLoading
    /\ ctRenders' = Append(ctRenders, [company |-> company, phase |-> "pending"])
    /\ ctActs' = Detached(ctActs)
    /\ ctTimers' = DetachedTimers(ctTimers)
    /\ ctClosed' = FALSE
    /\ UNCHANGED <<ctStats, ctArticles, ctFilter, ctQuery, ctSelected, ctCompany, ctServer>>
    /\ UNCHANGED notContent

\* Promise.all of render k settles: the try block's rest, or the catch clause.
ContentRenderResponds(k, ok, msg) ==
    /\ k \in 1..Len(ctRenders)
    /\ ctRenders[k].phase = "pending"
    /\ ctActs' = Detached(ctActs)
    /\ ctTimers' = DetachedTimers(ctTimers)
    /\ IF ok
       THEN /\ ctStats' = Data(ctRenders[k].company, k, ctServer)
            /\ ctArticles' = Data(ctRenders[k].company, k, ctServer)
            /\ ctFilter' = ""
            /\ ctQuery' = << >>
            /\ ctSelected' = NoArticle
            /\ ctCompany' = ctRenders[k].company
            /\ ctView' = RenderPage(ctStats', ctArticles', ctFilter', ctQuery', ctSelected')
            /\ ctRenders' = [ctRenders EXCEPT ![k].phase = "done"]
       ELSE /\ ctView' = CtError(msg)
            /\ ctRenders' = [ctRenders EXCEPT ![k].phase = "failed"]
            /\ UNCHANGED <<ctStats, ctArticles, ctFilter, ctQuery, ctSelected, ctCompany>>
    /\ UNCHANGED <<ctServer, ctClosed>>
    /\ UNCHANGED notContent

\* change on #ct-status-filter
ContentFilterChange(val) ==
    /\ ctView.kind = "content"
    /\ ctFilter' = val
    /\ ctView' = RenderPage(ctStats, ctArticles, val, ctQuery, ctSelected)
    /\ ctActs' = Detached(ctActs)
    /\ ctTimers' = DetachedTimers(ctTimers)
    /\ UNCHANGED <<ctStats, ctArticles, ctQuery, ctSelected, ctCompany, ctServer, ctRenders,
                   ctClosed>>
    /\ UNCHANGED notContent

\* input on #ct-search-input: clearTimeout, setTimeout(..., 300)
ContentSearchInput(val) ==
    /\ ctView.kind = "content"
    /\ Len(ClearTimeout(ctTimers)) < MaxTimers
    /\ ctTimers' = Append(ClearTimeout(ctTimers), [val |-> val, attached |-> TRUE])
    /\ UNCHANGED <<ctView, ctStats, ctArticles, ctFilter, ctQuery, ctSelected, ctCompany,
                   ctServer, ctRenders, ctActs, ctClosed>>
    /\ UNCHANGED notContent

\* The oldest debounce timer fires: e.target.value is the text last typed
\* into the input the timer was started from.
ContentDebounceFires ==
    /\ ctTimers # << >>
    /\ ctQuery' = Head(ctTimers).val
    /\ ctTimers' = DetachedTimers(Tail(ctTimers))
    /\ ctView' = RenderPage(ctStats, ctArticles, ctFilter, ctQuery', ctSelected)
    /\ ctActs' = Detached(ctActs)
    /\ UNCHANGED <<ctStats, ctArticles, ctFilter, ctSelected, ctCompany, ctServer, ctRenders,
                   ctClosed>>
    /\ UNCHANGED notContent

\* click on an article card
ContentSelectArticle ==
    /\ ctView.kind = "content"
    /\ CardShown(ctView)
    /\ Find(ctArticles) # NoArticle
    /\ ctSelected' = Find(ctArticles)
    /\ ctView' = RenderPage(ctStats, ctArticles, ctFilter, ctQuery, ctSelected')
    /\ ctActs' = Detached(ctActs)
    /\ ctTimers' = DetachedTimers(ctTimers)
    /\ ctClosed' = FALSE
    /\ UNCHANGED <<ctStats, ctArticles, ctFilter, ctQuery, ctCompany, ctServer, ctRenders>>
    /\ UNCHANGED notContent

\* click on #ct-close-panel
ContentClosePanel ==
    /\ ctView.kind = "content"
    /\ ctView.panel # NoArticle
    /\ ctSelected' = NoArticle
    /\ ctView' = RenderPage(ctStats, ctArticles, ctFilter, ctQuery, NoArticle)
    /\ ctActs' = Detached(ctActs)
    /\ ctTimers' = DetachedTimers(ctTimers)
    /\ ctClosed' = TRUE
    /\ UNCHANGED <<ctStats, ctArticles, ctFilter, ctQuery, ctCompany, ctServer, ctRenders>>
    /\ UNCHANGED notContent

\* click on #ct-approve-btn / #ct-publish-btn, up to the first await
ContentClickAction(kind) ==
    /\ Len(ctActs) < MaxContentActions
    /\ ctView.kind = "content"
    /\ kind \in ButtonsFor(ctView.panel)
    /\ kind \notin ctView.disabled
    /\ ctView' = [ctView EXCEPT !.disabled = @ \cup {kind}]
    /\ ctActs' = Append(ctActs, [kind |-> kind, phase |-> "acting", attached |-> TRUE,
                                 co |-> "none", before |-> ctView])
    /\ UNCHANGED <<ctStats, ctArticles, ctFilter, ctQuery, ctSelected, ctCompany, ctServer,
                   ctRenders, ctTimers, ctClosed>>
    /\ UNCHANGED notContent

\* The button of handler m, enabled again when it is still in the page.
Reenabled(shown, m) ==
    IF ctActs[m].attached THEN [shown EXCEPT !.disabled = @ \ {ctActs[m].kind}] ELSE shown

\* await API.content.approve(id) / publish(id) settles.
ContentActionResponds(m, ok, msg) ==
    /\ m \in 1..Len(ctActs)
    /\ ctActs[m].phase = "acting"
    /\ IF ok
       THEN /\ ctServer' = StatusAfter(ctActs[m].kind)
            /\ ctView' = ShowDetailFeedback(ctView, SuccessText(ctActs[m].kind))
            /\ ctActs' = [ctActs EXCEPT ![m].phase = "refreshing", ![m].co = ctCompany]
       ELSE /\ ctView' = Reenabled(ShowDetailFeedback(ctView, <<"Failed: ">> \o msg), m)
            /\ ctActs' = [ctActs EXCEPT ![m].phase = "failed"]
            /\ UNCHANGED ctServer
    /\ UNCHANGED <<ctStats, ctArticles, ctFilter, ctQuery, ctSelected, ctCompany, ctRenders,
                   ctTimers, ctClosed>>
    /\ UNCHANGED notContent

\* The refresh (Promise.all of stats and list) of handler m settles.
ContentRefreshResponds(m, ok, msg) ==
    /\ m \in 1..Len(ctActs)
    /\ ctActs[m].phase = "refreshing"
    /\ IF ok
       THEN /\ ctStats' = DataAfterRefetch(ctStats, Data(ctActs[m].co, -m, ctServer),
                                         ctActs[m].kind)
            /\ ctArticles' = DataAfterRefetch(ctArticles, Data(ctActs[m].co, -m, ctServer),
                                            ctActs[m].kind)
            /\ ctSelected' = Find(ctArticles')
            /\ ctActs' = [ctActs EXCEPT ![m].phase = "timer"]
            /\ UNCHANGED ctView
       ELSE /\ ctView' = Reenabled(ShowDetailFeedback(ctView, <<"Failed: ">> \o msg), m)
            /\ ctActs' = [ctActs EXCEPT ![m].phase = "failed"]
            /\ UNCHANGED <<ctStats, ctArticles, ctSelected>>
    /\ UNCHANGED <<ctFilter, ctQuery, ctCompany, ctServer, ctRenders, ctTimers, ctClosed>>
    /\ UNCHANGED notContent

\* setTimeout(() => this._renderPage(), 800) of handler m fires.
ContentRedrawTimer(m) ==
    /\ m \in 1..Len(ctActs)
    /\ ctActs[m].phase = "timer"
    /\ ctView' = RenderPage(ctStats, ctArticles, ctFilter, ctQuery, ctSelected)
    /\ ctActs' = [Detached(ctActs) EXCEPT ![m].phase = "done"]
    /\ ctTimers' = DetachedTimers(ctTimers)
    /\ UNCHANGED <<ctStats, ctArticles, ctFilter, ctQuery, ctSelected, ctCompany, ctServer,
                   ctRenders, ctClosed>>
    /\ UNCHANGED notContent

\* The module's fields as the object literal declares them.
ContentFields ==
    /\ ctView = CtNone
    /\ ctStats = NoFetched
    /\ ctArticles = NoFetched
    /\ ctFilter = ""
    /\ ctQuery = << >>
    /\ ctSelected = NoArticle
    /\ ctCompany = "undefined"
    /\ ctRenders = << >>
    /\ ctActs = << >>
    /\ ctTimers = << >>
    /\ ctClosed = FALSE

ContentAtRest == ctServer = "draft" /\ ContentFields

(***************************************************************************)
(* The post-detail page with a post id: PagePostDetail (render, the save    *)
(* handler and the approve/reject/reschedule handlers of _bindEvents).     *)
(***************************************************************************)
PostTexts == {<< >>, <<"old text">>}
SubmittedTexts == {<< >>, <<"new text">>}
PostStatuses == {"draft", "review", "scheduled"}

PdView(kind, content, post, status, msg) ==
    [kind |-> kind, content |-> content, post |-> post, status |-> status, msg |-> msg,
     editing |-> FALSE, saveDisabled |-> FALSE, saveFeedback |-> << >>,
     disabled |-> {}, feedback |-> << >>]
\* container: null before the first render
PdNone == [kind |-> "none"]
PdSkeleton == PdView("loading", << >>, << >>, "none", << >>)
PdError(message) == PdView("error", << >>, << >>, "none", Esc(message))
\* _renderPost(post): post.content || 'No content yet.' in #pd-content-view
PdPost(post) ==
    PdView("content",
           IF post.content = << >> THEN <<"No content yet.">> ELSE post.content,
           post.content, post.status, << >>)

\* isDraft || isReview: approve and reject; isScheduled: reschedule
DetailButtons(status) ==
    CASE status \in {"draft", "review"} -> {"approve", "reject"}
      [] status = "scheduled" -> {"reschedule"}
      [] OTHER -> {}

FailedText(kind) ==
    CASE kind = "approve" -> <<"Failed to approve: ">>
      [] kind = "reject" -> <<"Failed to reject: ">>
      [] OTHER -> <<"Failed to reschedule: ">>

\* _showFeedback: writes into #pd-action-feedback of the current content
\* and shows it,
ShowFeedback(shown, message) ==
    IF shown.kind = "content" THEN [shown EXCEPT !.feedback = message] ELSE shown
\* and starts a timer that hides the element again:
\* setTimeout(() => fb.classList.add('hidden'), 4000).  attached: fb is the
\* element in the page.
FeedbackTimer(shown, timers) ==
    IF shown.kind = "content" THEN Append(timers, [attached |-> TRUE]) ELSE timers

\* PagePostDetail.render(postId) up to its await: the skeleton.
DetailRender ==
    /\ Len(pdRenders) < MaxDetailRenders
    /\ pdView' = PdSkeleton
    /\ pdRenders' = Append(pdRenders, "pending")
    /\ pdSaves' = Detached(pdSaves)
    /\ pdReqs' = Detached(pdReqs)
    /\ pdTimers' = Detached(pdTimers)
    /\ UNCHANGED pdServer
    /\ UNCHANGED notDetail

\* API.posts.get of render k settles.
DetailRenderResponds(k, ok, msg) ==
    /\ k \in 1..Len(pdRenders)
    /\ pdRenders[k] = "pending"
    /\ pdView' = IF ok THEN PdPost(pdServer) ELSE PdError(msg)
    /\ pdRenders' = [pdRenders EXCEPT ![k] = IF ok THEN "done" ELSE "failed"]
    /\ pdSaves' = Detached(pdSaves)
    /\ pdReqs' = Detached(pdReqs)
    /\ pdTimers' = Detached(pdTimers)
    /\ UNCHANGED pdServer
    /\ UNCHANGED notDetail

\* click on #pd-toggle-edit
DetailToggleEdit ==
    /\ pdView.kind = "content"
    /\ pdView' = [pdView EXCEPT !.editing = ~@]
    /\ UNCHANGED <<pdServer, pdRenders, pdSaves, pdReqs, pdTimers>>
    /\ UNCHANGED notDetail

\* click on #pd-save-content with newContent in the textarea, up to the await
DetailSaveClick(newContent) ==
    /\ Len(pdSaves) < MaxSaves
    /\ pdView.kind = "content"
    /\ pdView.editing
    /\ ~pdView.saveDisabled
    /\ pdView' = [pdView EXCEPT !.saveDisabled = TRUE]
    /\ pdSaves' = Append(pdSaves, [text |-> newContent, phase |-> "saving", attached |-> TRUE])
    /\ UNCHANGED <<pdServer, pdRenders, pdReqs, pdTimers>>
    /\ UNCHANGED notDetail

\* What the save handler writes on success (try block), on failure (catch)
\* and in both cases (finally) into the elements it was bound to.
SaveSucceeded(shown, text) ==
    [shown EXCEPT !.saveFeedback = <<"Saved successfully">>, !.content = text, !.post = text]
SaveFailed(shown, msg) == [shown EXCEPT !.saveFeedback = <<"Save failed: ">> \o msg]
SaveFinally(shown) == [shown EXCEPT !.saveDisabled = FALSE]

\* await API.posts.update(post.id, { content: newContent }) of save s settles.
DetailSaveResponds(s, ok, msg) ==
    /\ s \in 1..Len(pdSaves)
    /\ pdSaves[s].phase = "saving"
    /\ pdServer' = IF ok THEN [pdServer EXCEPT !.content = pdSaves[s].text] ELSE pdServer
    /\ pdView' = IF ~pdSaves[s].attached THEN pdView
                 ELSE IF ok THEN SaveFinally(SaveSucceeded(pdView, pdSaves[s].text))
                 ELSE SaveFinally(SaveFailed(pdView, msg))
    /\ pdSaves' = [pdSaves EXCEPT ![s].phase = IF ok THEN "saved" ELSE "failed"]
    /\ UNCHANGED <<pdRenders, pdReqs, pdTimers>>
    /\ UNCHANGED notDetail

\* The 1000 ms timer of a successful save: back to the view, feedback cleared.
DetailSaveTimer(s) ==
    /\ s \in 1..Len(pdSaves)
    /\ pdSaves[s].phase = "saved"
    /\ pdView' = IF pdSaves[s].attached
                 THEN [pdView EXCEPT !.editing = FALSE, !.saveFeedback = << >>]
                 ELSE pdView
    /\ pdSaves' = [pdSaves EXCEPT ![s].phase = "closed"]
    /\ UNCHANGED <<pdServer, pdRenders, pdReqs, pdTimers>>
    /\ UNCHANGED notDetail

\* The buttons a click on the button of `kind` disables.
DisabledByClick(status, kind) == {kind}

\* What the user types into the prompt of the reschedule button.
PromptDates == {"empty", "malformed", "2026-01-01"}
InvalidDateText == <<"Invalid date format. Use YYYY-MM-DD.">>

\* click on #pd-approve-btn, #pd-reject-btn or #pd-reschedule-btn, up to
\* the await.  Reschedule asks for a date first: `if (!newDate) return`,
\* and a date that is not YYYY-MM-DD gets the feedback text and no request.
DetailClickAction(kind, date) ==
    /\ Len(pdReqs) < MaxDetailActions
    /\ pdView.kind = "content"
    /\ kind \in DetailButtons(pdView.status)
    /\ kind \notin pdView.disabled
    /\ date \in PromptDates
    /\ kind # "reschedule" => date = "2026-01-01"
    /\ date # "empty"
    /\ IF date = "malformed"
       THEN /\ Len(pdTimers) < MaxFeedbacks
            /\ pdView' = ShowFeedback(pdView, InvalidDateText)
            /\ pdTimers' = FeedbackTimer(pdView, pdTimers)
            /\ UNCHANGED pdReqs
       ELSE /\ pdView' = [pdView EXCEPT
                            !.disabled = @ \cup DisabledByClick(pdView.status, kind)]
            /\ pdReqs' = Append(pdReqs, [kind |-> kind, phase |-> "acting", attached |-> TRUE])
            /\ UNCHANGED pdTimers
    /\ UNCHANGED <<pdServer, pdRenders, pdSaves>>
    /\ UNCHANGED notDetail

\* The request of handler m settles: on success _showFeedback and
\* this.render(post.id), which draws the skeleton at once (the feedback
\* element and its new timer go with the replaced content); on failure the
\* catch clause.
DetailActionResponds(m, ok, msg) ==
    /\ m \in 1..Len(pdReqs)
    /\ pdReqs[m].phase = "acting"
    /\ IF ok
       THEN /\ Len(pdRenders) < MaxDetailRenders
            /\ pdServer' = [pdServer EXCEPT !.status = StatusAfter(pdReqs[m].kind)]
            /\ pdView' = PdSkeleton
            /\ pdRenders' = Append(pdRenders, "pending")
            /\ pdSaves' = Detached(pdSaves)
            /\ pdReqs' = [Detached(pdReqs) EXCEPT ![m].phase = "done"]
            /\ pdTimers' = Detached(FeedbackTimer(pdView, pdTimers))
       ELSE /\ pdView' = LET fb == ShowFeedback(pdView, FailedText(pdReqs[m].kind) \o msg)
                         IN  IF pdReqs[m].attached
                             THEN [fb EXCEPT !.disabled = @ \ {pdReqs[m].kind}]
                             ELSE fb
            /\ pdReqs' = [pdReqs EXCEPT ![m].phase = "failed"]
            /\ pdTimers' = FeedbackTimer(pdView, pdTimers)
            /\ UNCHANGED <<pdServer, pdRenders, pdSaves>>
    /\ UNCHANGED notDetail

\* The oldest 4000 ms timer of _showFeedback fires: the feedback element it
\* was started for is hidden, whatever message it shows by now.
DetailFeedbackTimer ==
    /\ pdTimers # << >>
    /\ pdTimers' = Tail(pdTimers)
    /\ pdView' = IF Head(pdTimers).attached /\ pdView.kind = "content"
                 THEN [pdView EXCEPT !.feedback = << >>]
                 ELSE pdView
    /\ UNCHANGED <<pdServer, pdRenders, pdSaves, pdReqs>>
    /\ UNCHANGED notDetail

DetailFields ==
    /\ pdView = PdNone
    /\ pdRenders = << >>
    /\ pdSaves = << >>
    /\ pdReqs = << >>
    /\ pdTimers = << >>

DetailAtRest == pdServer = [content |-> << >>, status |-> "draft"] /\ DetailFields

AuxAtRest == ApiAtRest /\ MutAtRest /\ AeoAtRest /\ ContentAtRest /\ DetailAtRest

(***************************************************************************)
(* Chart / calendar instances.                                             *)
(***************************************************************************)
NoChart == [n |-> 0, by |-> 0]
NewChart(i) == [n |-> made + 1, by |-> i]

\* if (this._x) { this._x.destroy(); this._x = null; }
DestroyPrevious_Skipped(h, l) == l
DestroyPrevious(h, l) == IF h # NoChart THEN l \ {h} ELSE l

\* PageHome._renderFunnelChart: destroy the previous instance, then create
\* one on the canvas the success markup always contains.
RenderFunnelChart(i) ==
    /\ live' = DestroyPrevious(handle, live) \cup {NewChart(i)}
    /\ handle' = NewChart(i)
    /\ made' = made + 1

\* PageQuality._renderChart: the canvas of the detail panel is present
\* whenever a run is selected.
RenderChart(i) ==
    /\ live' = DestroyPrevious(handle, live) \cup {NewChart(i)}
    /\ handle' = NewChart(i)
    /\ made' = made + 1

\* PageCalendar._initCalendar: creates the instance; it does not look at
\* this._calendar first.
InitCalendar(i) ==
    /\ live' = live \cup {NewChart(i)}
    /\ handle' = NewChart(i)
    /\ made' = made + 1

(***************************************************************************)
(* Container contents.                                                     *)
(***************************************************************************)
Idle == [state |-> "idle", by |-> 0, text |-> << >>, data |-> "none"]
Loading(i) == [state |-> "loading", by |-> i, text |-> << >>, data |-> "none"]
Content(i, d) == [state |-> "content", by |-> i, text |-> << >>, data |-> d]
ErrorPanel(i, msg) == [state |-> "error", by |-> i, text |-> Esc(msg), data |-> "none"]
SelectPost(i) == [state |-> "select", by |-> i, text |-> << >>, data |-> "none"]

(***************************************************************************)
(* render() invocations.  arg is the invocation's parameter (company or    *)
(* postId), a local that exists while the invocation is suspended at its   *)
(* await; a record of an invocation that has returned keeps JsUndefined.   *)
(***************************************************************************)
\* auto: the run of init() that Alpine starts by itself when it creates a
\* component whose data object has an init method (Alpine.data components),
\* before it evaluates x-init; its requests in flight and how it ended.
\* nullRead: where the code after the await of a run in flight will read a
\* property of a body that was answered as the JSON value null: "none" (no
\* such body so far), "first" (in its first statement) or "later".
NoAuto == [pending |-> {}, nullRead |-> "none", outcome |-> "n/a", promise |-> "n/a"]
NewInv(a, reqs, out, pr, ini) ==
    [arg |-> a, pending |-> reqs, defaults |-> {}, nullRead |-> "none", outcome |-> out,
     err |-> << >>, promise |-> pr, init |-> ini, auto |-> NoAuto]

Settled(inv) == inv.outcome # "inflight" /\ inv.auto.outcome # "inflight"

\* How an async function's promise settles when its body ends, given
\* whether an error was thrown inside the try block.
PromiseAfter(p, threw) ==
    IF threw /\ CatchKind(p) = "none" THEN "rejected" ELSE "resolved"

\* container absent: `if (!container) return;`
RenderNoContainer(a) ==
    /\ ~containerExists
    /\ invs' = Append(invs, NewInv(JsUndefined, {}, "noop", "resolved", "n/a"))
    /\ UNCHANGED <<container, handle, live, made, selected>>

\* home, content, gbp, aeo, reviews, brand-audit, assets, quality:
\* loading placeholder, then the requests are issued and awaited.
RenderPanelPage(a) ==
    /\ pg \in PageKeys \ (AlpinePages \cup {"calendar", "post-detail"})
    /\ containerExists
    /\ container' = Loading(Len(invs) + 1)
    /\ invs' = Append(invs, NewInv(a, Requests(pg), "inflight", "pending", "n/a"))
    /\ UNCHANGED <<handle, live, made, selected>>

\* PageCalendar.render: destroys the previous instance before the skeleton.
RenderCalendar(a) ==
    /\ pg = "calendar"
    /\ containerExists
    /\ live' = DestroyPrevious(handle, live)
    /\ handle' = NoChart
    /\ container' = Loading(Len(invs) + 1)
    /\ invs' = Append(invs, NewInv(a, Requests(pg), "inflight", "pending", "n/a"))
    /\ UNCHANGED <<made, selected>>

\* PagePostDetail.render: without a post id the placeholder is written and
\* render returns.
RenderPostDetail(a) ==
    /\ pg = "post-detail"
    /\ containerExists
    /\ IF Falsy(a)
       THEN /\ container' = SelectPost(Len(invs) + 1)
            /\ invs' = Append(invs, NewInv(JsUndefined, {}, "select", "resolved", "n/a"))
       ELSE /\ container' = Loading(Len(invs) + 1)
            /\ invs' = Append(invs, NewInv(a, Requests(pg), "inflight", "pending", "n/a"))
    /\ UNCHANGED <<handle, live, made, selected>>

\* PageReactivation.render / PageSettings.render: the template replaces the
\* container content and Alpine.initTree creates a new component (loading =
\* true); render() itself returns without awaiting.  init runs twice on
\* the component: Alpine calls the data object's init() with no argument
\* (_company = undefined, the requests carry no company), then x-init calls
\* init('<company>') or init().  Each run issues every request of loadData.
RenderAlpine(a) ==
    /\ pg \in AlpinePages
    /\ containerExists
    /\ container' = Loading(Len(invs) + 1)
    /\ invs' = Append(invs, [NewInv(a, Requests(pg), "inflight", "resolved", "pending")
                               EXCEPT !.auto = [pending |-> Requests(pg),
                                                nullRead |-> "none",
                                                outcome |-> "inflight",
                                                promise |-> "pending"]])
    /\ UNCHANGED <<handle, live, made, selected>>

\* The page modules whose render stores the element in this.container.
CachingPages == {"content", "quality", "post-detail"}

\* The asynchronous runs one render starts: render() itself, or the two
\* runs of init() of an Alpine page.
RunsPerRender(p) == IF p \in AlpinePages THEN 2 ELSE 1

Render(a) ==
    /\ (Len(invs) + 1) * RunsPerRender(pg) <= MaxRenders
    /\ a \in ArgsOf(pg)
    /\ \/ RenderNoContainer(a)
       \/ RenderPanelPage(a)
       \/ RenderCalendar(a)
       \/ RenderPostDetail(a)
       \/ RenderAlpine(a)
    \* this.container = document.getElementById(...), before the check
    /\ cached' = IF pg \in CachingPages
                 THEN (IF containerExists THEN "element" ELSE "null")
                 ELSE cached
    \* one HTTP request for each API call of the invocation
    /\ fetches' = fetches + Cardinality(invs'[Len(invs')].pending)
                           + Cardinality(invs'[Len(invs')].auto.pending)
    /\ fetches' <= MaxRequests
    /\ UNCHANGED <<pg, containerExists, clicks, ticks>>
    /\ UNCHANGED <<routerVars, auxVars>>

(***************************************************************************)
(* Responses.                                                              *)
(***************************************************************************)
Json == [kind |-> "json", msg |-> << >>]           \* 2xx with a JSON body
Failure(m) == [kind |-> "error", msg |-> m]        \* the request's promise rejects
Results == {Json} \cup {Failure(m) : m \in ErrMsgs}

\* The body loadData reads a property of in its first statement after the
\* await: leadsRes.leads, tokensRes.tokens.
ReadFirst(p) ==
    CASE p = "reactivation" -> {"leads"}
      [] p = "settings" -> {"tokens"}
      [] OTHER -> {}

\* nullRead of a run after request r was answered; usable: the body is not
\* the JSON value null.
NullReadAfter(before, r, usable) ==
    IF usable \/ r \notin NullThrows(pg) THEN before
    ELSE IF r \in ReadFirst(pg) \/ before = "first" THEN "first"
    ELSE "later"

\* What the component of invocation i shows once a run of init() has set
\* loading = false: the fields loadData assigned.  fetched: what a run that
\* ended well shows ("fetched" for the run x-init started, "fetched, no
\* company" for the run without argument of the reactivation page).
ComponentData(i, out, nullRead, fetched) ==
    CASE out = "ok" -> fetched
      [] out = "rejected" \/ nullRead = "first" ->
           \* Promise.all rejected, or the first statement after the await
           \* threw: nothing assigned
           IF container.by = i /\ container.state = "content"
           THEN container.data            \* what the other run assigned
           ELSE "defaults"
      [] OTHER -> "partial"               \* thrown between the assignments of loadData
AutoFetched(p) == IF p = "reactivation" THEN "fetched, no company" ELSE "fetched"

\* finally { this.loading = false } of an Alpine component's init(): the
\* loading block is hidden and the data blocks show d.  The component of
\* invocation i is in the document only while no later render has replaced
\* the container content.
Finally_Missing(i, d) == container
Finally(i, d) == IF container.by = i THEN Content(i, d) ELSE container

\* The catch clause (and, for the Alpine pages, the finally clause) of
\* invocation i; `left` are its requests still in flight.
Catch(i, left, nullRead, out, msg) ==
    /\ invs' = [invs EXCEPT ![i] =
                  [@ EXCEPT !.arg = JsUndefined, !.pending = left, !.defaults = {},
                            !.nullRead = "none",
                            !.outcome = out, !.err = msg,
                            !.promise = IF pg \in AlpinePages THEN @
                                        ELSE PromiseAfter(pg, TRUE),
                            !.init = IF pg \in AlpinePages
                                     THEN PromiseAfter(pg, TRUE) ELSE @]]
    /\ container' =
         CASE CatchKind(pg) = "panel" -> ErrorPanel(i, msg)
           [] CatchKind(pg) = "log" ->
                \* finally { this.loading = false }: the component of
                \* invocation i is in the document only while no later
                \* render has replaced the container content
                Finally(i, ComponentData(i, out, nullRead, "fetched"))
           [] OTHER -> container
    /\ UNCHANGED <<handle, live, made, selected>>

\* The code after the await when every request resolved and nothing throws.
\* fell: the optional requests that were replaced by their default.
HomeData(fell) == IF "posts" \in fell THEN "fetched, no posts" ELSE "fetched"

Then(i, left, fell) ==
    /\ invs' = [invs EXCEPT ![i] =
                  [@ EXCEPT !.arg = JsUndefined, !.pending = left, !.defaults = {},
                            !.nullRead = "none",
                            !.outcome = "ok",
                            !.promise = IF pg \in AlpinePages THEN @
                                        ELSE PromiseAfter(pg, FALSE),
                            !.init = IF pg \in AlpinePages
                                     THEN PromiseAfter(pg, FALSE) ELSE @]]
    /\ CASE pg = "home" ->
              /\ container' = Content(i, HomeData(fell))
              /\ RenderFunnelChart(i)
              /\ UNCHANGED selected
         [] pg = "calendar" ->
              /\ container' = Content(i, "fetched")
              /\ InitCalendar(i)
              /\ UNCHANGED selected
         [] pg = "quality" ->
              \* _selectedRun = null; _renderPage() draws no chart
              /\ container' = Content(i, "fetched")
              /\ selected' = "none"
              /\ UNCHANGED <<handle, live, made>>
         [] pg \in AlpinePages ->
              /\ container' = Finally(i, "fetched")
              /\ UNCHANGED <<handle, live, made, selected>>
         [] OTHER ->
              /\ container' = Content(i, "fetched")
              /\ UNCHANGED <<handle, live, made, selected>>

\* The response to request r of invocation i arrives.  Promise.all rejects
\* with the first rejection and resolves when the last request resolved.
\* Responses that arrive after it settled have no continuation to run, so
\* the requests of a settled invocation are no longer tracked.
\* usable: the body of this answer is not the JSON value null (a rejected
\* request has no body).  The bodies are looked at only when Promise.all
\* has resolved, whatever the order of the answers: a null body stays with
\* the run until then (nullRead), and the code after the await throws when
\* one of the bodies it reads a property of is null.
\* Requests issued again when a response has arrived: api.js awaits one
\* fetch per call and no caller repeats a call from its catch clause.
Retries_OnError(res) == IF res.kind = "error" THEN 1 ELSE 0
Retries(res) == 0

Respond(i, r, res, usable) ==
    /\ i \in 1..Len(invs)
    /\ r \in invs[i].pending
    /\ res \in Results
    /\ res.kind = "error" => usable
    /\ LET inv == invs[i]
           \* API.posts.list(...).catch(() => ({ posts: [] }))
           eff == IF r \in OptionalRequests(pg) /\ res.kind = "error" THEN Json ELSE res
           left == inv.pending \ {r}
           fell == IF r \in OptionalRequests(pg) /\ res.kind = "error"
                   THEN inv.defaults \cup {r} ELSE inv.defaults
           nullRead == NullReadAfter(inv.nullRead, r, usable)
       IN  IF eff.kind = "error"
           THEN Catch(i, {}, nullRead, "rejected", eff.msg)
           ELSE IF left = {}
           THEN IF nullRead = "none" THEN Then(i, {}, fell)
                ELSE Catch(i, {}, nullRead, "threw", TypeErrMsg)
           ELSE /\ invs' = [invs EXCEPT ![i].pending = left, ![i].defaults = fell,
                                        ![i].nullRead = nullRead]
                /\ UNCHANGED <<container, handle, live, made, selected>>
    \* neither api.js nor a catch clause issues a request again
    /\ fetches' = fetches + Retries(res)
    /\ UNCHANGED <<pg, containerExists, clicks, cached, ticks>>
    /\ UNCHANGED <<routerVars, auxVars>>

\* The response to request r of the run of init() that Alpine started by
\* itself for the component of invocation i: the same try / catch / finally.
RespondAuto(i, r, res, usable) ==
    /\ i \in 1..Len(invs)
    /\ r \in invs[i].auto.pending
    /\ res \in Results
    /\ res.kind = "error" => usable
    /\ LET left == invs[i].auto.pending \ {r}
           nullRead == NullReadAfter(invs[i].auto.nullRead, r, usable)
           out == IF res.kind = "error" THEN "rejected"
                  ELSE IF left # {} THEN "inflight"
                  ELSE IF nullRead = "none" THEN "ok" ELSE "threw"
       IN  /\ invs' = [invs EXCEPT ![i].auto =
                         [pending |-> IF out = "inflight" THEN left ELSE {},
                          nullRead |-> IF out = "inflight" THEN nullRead ELSE "none",
                          outcome |-> out,
                          promise |-> IF out = "inflight" THEN "pending"
                                      ELSE PromiseAfter(pg, out # "ok")]]
           /\ container' = IF out = "inflight" THEN container
                            ELSE Finally(i, ComponentData(i, out, nullRead, AutoFetched(pg)))
    /\ fetches' = fetches + Retries(res)
    /\ UNCHANGED <<pg, containerExists, handle, live, made, selected, clicks, cached, ticks>>
    /\ UNCHANGED <<routerVars, auxVars>>

(***************************************************************************)
(* User actions on the rendered page that touch the chart handle.          *)
(***************************************************************************)
\* PageQuality: click on a run row.  hasProgression: the run has a
\* score_progression, so _renderPage calls _renderChart.
QualitySelectRun(hasProgression) ==
    /\ pg = "quality"
    /\ container.state = "content"
    /\ containerExists
    /\ clicks < MaxClicks
    /\ clicks' = clicks + 1
    /\ selected' = IF hasProgression THEN "chart" ELSE "plain"
    /\ IF hasProgression THEN RenderChart(container.by)
                         ELSE UNCHANGED <<handle, live, made>>
    /\ UNCHANGED <<pg, containerExists, container, invs>>
    /\ UNCHANGED <<cached, fetches, ticks>>
    /\ UNCHANGED <<routerVars, auxVars>>

\* PageQuality: a filter control changes; _renderPage redraws and, with a
\* run still selected, draws its chart again.
QualityFilterChange ==
    /\ pg = "quality"
    /\ container.state = "content"
    /\ containerExists
    /\ clicks < MaxClicks
    /\ clicks' = clicks + 1
    /\ IF selected = "chart" THEN RenderChart(container.by)
                             ELSE UNCHANGED <<handle, live, made>>
    /\ UNCHANGED <<pg, containerExists, container, invs, selected>>
    /\ UNCHANGED <<cached, fetches, ticks>>
    /\ UNCHANGED <<routerVars, auxVars>>

\* PageQuality: close button of the detail panel.
QualityClosePanel ==
    /\ pg = "quality"
    /\ container.state = "content"
    /\ selected # "none"
    /\ containerExists
    /\ clicks < MaxClicks
    /\ clicks' = clicks + 1
    /\ selected' = "none"
    /\ UNCHANGED <<pg, containerExists, container, invs, handle, live, made>>
    /\ UNCHANGED <<cached, fetches, ticks>>
    /\ UNCHANGED <<routerVars, auxVars>>

\* reactivationPage.switchToFunnel: currentTab = 'funnel' and a $nextTick
\* callback is queued; the tab buttons are part of the template, so they
\* exist as soon as render ran.  The callback belongs to the component that
\* is in the page when the button is clicked.
SwitchToFunnel ==
    /\ pg = "reactivation"
    /\ container.state # "idle"
    /\ containerExists
    /\ clicks < MaxClicks
    /\ clicks' = clicks + 1
    /\ ticks' = Append(ticks, container.by)
    /\ UNCHANGED <<pg, containerExists, container, invs, handle, live, made, selected>>
    /\ UNCHANGED <<cached, fetches>>
    /\ UNCHANGED <<routerVars, auxVars>>

\* The $nextTick callback of switchToFunnel runs (Alpine releases it from a
\* timer task, so other events can come first): renderFunnelChart looks
\* the canvas up in the document, `if (!canvas) return`; the canvas is part
\* of the template.
FunnelTick ==
    /\ ticks # << >>
    /\ ticks' = Tail(ticks)
    /\ IF containerExists /\ container.state # "idle"
       THEN RenderFunnelChart(Head(ticks))
       ELSE UNCHANGED <<handle, live, made>>
    /\ UNCHANGED <<pg, containerExists, container, invs, selected, clicks>>
    /\ UNCHANGED <<cached, fetches>>
    /\ UNCHANGED <<routerVars, auxVars>>

(***************************************************************************)
(* The router's variables while a page renderer is exercised alone.        *)
(***************************************************************************)
RouterAtRest ==
    /\ hash = << >>
    /\ started = FALSE
    /\ focus = "home"
    /\ currentPage = "home"
    /\ pageTitle = JsStr(<<"Dashboard">>)
    /\ pageSubtitle = JsStr(<<"Overview of all marketing systems">>)
    /\ routeParams = << >>
    /\ activeCompany = << >>
    /\ loads = << >>
    /\ queued = 0
    /\ hashEvents = 0
    /\ calendarShown = FALSE
    /\ fade = {}

Init ==
    /\ pg \in PageKeys
    /\ containerExists \in BOOLEAN
    /\ container = Idle
    /\ invs = << >>
    /\ handle = NoChart
    /\ live = {}
    /\ made = 0
    /\ selected = "none"
    /\ clicks = 0
    /\ cached = "null"
    /\ fetches = 0
    /\ ticks = << >>
    /\ RouterAtRest
    /\ AuxAtRest

Next ==
    \/ \E a \in ArgsOf(pg) : Render(a)
    \/ \E i \in 1..Len(invs) : \E r \in Requests(pg) : \E res \in Results :
          \E usable \in BOOLEAN : Respond(i, r, res, usable)
    \/ \E b \in BOOLEAN : QualitySelectRun(b)
    \/ QualityFilterChange
    \/ QualityClosePanel
    \/ SwitchToFunnel
    \/ FunnelTick
    \/ \E i \in 1..Len(invs) : \E r \in Requests(pg) : \E res \in Results :
          \E usable \in BOOLEAN : RespondAuto(i, r, res, usable)

Spec == Init /\ [][Next]_vars

\* Render invocations and responses alone, every issued request being
\* answered eventually; one failure message stands for all.
LiveResults == {Json, Failure(<<"API 500: Internal Server Error">>)}

NextLive ==
    \/ \E a \in ArgsOf(pg) : Render(a)
    \/ \E i \in 1..Len(invs) : \E r \in Requests(pg) :
          \E res \in LiveResults : \E usable \in BOOLEAN : Respond(i, r, res, usable)
    \/ \E i \in 1..Len(invs) : \E r \in Requests(pg) :
          \E res \in LiveResults : \E usable \in BOOLEAN : RespondAuto(i, r, res, usable)

SpecLive == Init /\ [][NextLive]_vars
                 /\ WF_vars(\E i \in 1..Len(invs) : \E r \in Requests(pg) :
                               \E res \in LiveResults : \E usable \in BOOLEAN :
                                  \/ Respond(i, r, res, usable)
                                  \/ RespondAuto(i, r, res, usable))

\* The page container is taken out of the document while no render is in
\* flight (containers are looked up by id on every render).
RemoveContainer ==
    /\ containerExists
    /\ \A i \in 1..Len(invs) : Settled(invs[i])
    /\ containerExists' = FALSE
    /\ UNCHANGED <<pg, container, invs, handle, live, made, selected, clicks,
                   cached, fetches, ticks>>
    /\ UNCHANGED <<routerVars, auxVars>>

NextDom == Next \/ RemoveContainer

SpecDom == Init /\ [][NextDom]_vars

(***************************************************************************)
(* Router: static/js/app.js.                                               *)
(***************************************************************************)
\* pageMeta: the own properties of the object literal.
PageMeta ==
    [k \in PageKeys |->
       CASE k = "home" -> [title |-> <<"Dashboard">>,
                           subtitle |-> <<"Overview of all marketing systems">>]
         [] k = "calendar" -> [title |-> <<"LinkedIn Calendar">>,
                               subtitle |-> <<"Scheduled posts and events">>]
         [] k = "post-detail" -> [title |-> <<"Post Detail">>,
                                  subtitle |-> <<"Review and manage post">>]
         [] k = "content" -> [title |-> <<"Content Library">>,
                              subtitle |-> <<"Articles and content management">>]
         [] k = "gbp" -> [title |-> <<"Google Business Profile">>,
                          subtitle |-> <<"Locations, insights, and local search">>]
         [] k = "aeo" -> [title |-> <<"AEO/GEO Engine">>,
                          subtitle |-> <<"Answer engine optimization and AI citations">>]
         [] k = "reviews" -> [title |-> <<"Review Management">>,
                              subtitle |-> <<"Monitor and respond to customer reviews">>]
         [] k = "brand-audit" -> [title |-> <<"Brand Consistency">>,
                                  subtitle |-> <<"NAP accuracy, visual identity, and voice">>]
         [] k = "assets" -> [title |-> <<"Visual Assets">>,
                             subtitle |-> <<"Templates, social cards, and showcases">>]
         [] k = "quality" -> [title |-> <<"Quality Loop">>,
                              subtitle |-> <<"Recursive content improvement engine">>]
         [] k = "reactivation" -> [title |-> <<"Database Reactivation">>,
                                   subtitle |-> <<"Lead pipeline and sequences">>]
         [] k = "settings" -> [title |-> <<"Settings">>,
                               subtitle |-> <<"OAuth tokens, companies, and system info">>]]

\* Property names every object literal inherits from Object.prototype; a
\* read of pageMeta[name] yields that inherited (truthy) value, which has no
\* title and no subtitle property.
InheritedKeys ==
    {"constructor", "toString", "toLocaleString", "valueOf", "hasOwnProperty",
     "isPrototypeOf", "propertyIsEnumerable", "__proto__", "__defineGetter__",
     "__defineSetter__", "__lookupGetter__", "__lookupSetter__"}

\* this.pageMeta[page] for the string page: its truthiness, and the values
\* of .title and .subtitle read from it.
MetaLookup(page) ==
    IF Len(page) = 1 /\ page[1] \in PageKeys
    THEN [truthy |-> TRUE, title |-> JsStr(PageMeta[page[1]].title),
          subtitle |-> JsStr(PageMeta[page[1]].subtitle)]
    ELSE IF Len(page) = 1 /\ page[1] \in InheritedKeys
    THEN [truthy |-> TRUE, title |-> JsUndefined, subtitle |-> JsUndefined]
    ELSE [truthy |-> FALSE, title |-> JsUndefined, subtitle |-> JsUndefined]

\* The characters of a URL fragment: the separator and runs of other
\* characters.
Words == PageKeys \cup {"constructor", "toString", "42", "zz"}
Alphabet == Words \cup {"/"}

\* window.location.hash: empty, or '#' followed by the fragment.
Fragments == UNION {[1..n -> Alphabet] : n \in 0..MaxHashLen}
LocationHash(frag) == IF frag = << >> THEN << >> ELSE <<"#">> \o frag
AllHashes == {LocationHash(f) : f \in Fragments}

\* str.slice(1)
Slice1(str) == IF str = << >> THEN << >> ELSE Tail(str)

\* str.split('/'): the segments between the separators (one empty segment
\* for the empty string).
Split(str) ==
    LET F[k \in 0..Len(str)] ==
          IF k = 0 THEN << << >> >>
          ELSE IF str[k] = "/" THEN Append(F[k - 1], << >>)
          ELSE [F[k - 1] EXCEPT ![Len(F[k - 1])] = Append(@, str[k])]
    IN  F[Len(str)]

\* parts.slice(1)
RouteParamsOf_WholeArray(parts) == parts
RouteParamsOf(parts) == Tail(parts)

\* const company = this.activeCompany || null
CompanyOf_AlwaysNull(ac) == JsNull
CompanyOf(ac) == IF ac = << >> THEN JsNull ELSE JsStr(ac)

\* this._routeParams[0]
FirstParam(params) == IF Len(params) >= 1 THEN JsStr(params[1]) ELSE JsUndefined

\* The argument list of the render call in loadPage's switch.
RenderArgs(page, params, ac) ==
    CASE page = "post-detail" -> <<FirstParam(params)>>
      [] page = "settings" -> << >>
      [] OTHER -> <<CompanyOf(ac)>>

\* How loadPage's promise settles given whether the awaited renderer threw
\* or rejected: try { switch ... } catch (err) { console.error(...) }
LoadPagePromiseAfter_Rethrow(threw) == IF threw THEN "rejected" ELSE "resolved"
LoadPagePromiseAfter(threw) == "resolved"

\* classList.remove('page-fade-active'); classList.add('page-fade-enter')
FadeOut(classes) == (classes \ {"page-fade-active"}) \cup {"page-fade-enter"}
\* classList.remove('page-fade-enter'); classList.add('page-fade-active')
FadeIn(classes) == (classes \ {"page-fade-enter"}) \cup {"page-fade-active"}

\* loadPage(...).then(() => { ...; requestAnimationFrame(...) }): the frame
\* callback is scheduled once loadPage's promise has resolved.
FadeInAfter_AtOnce(promise) == "scheduled"
FadeInAfter(promise) == IF promise = "resolved" THEN "scheduled" ELSE "waiting"

\* loadPage(page) up to its await.  how: what the renderer does when it is
\* called ("pending": it returns a promise that is still pending, "threw": it
\* throws before returning one).
LoadPage(page, params, ac, via, how) ==
    /\ how \in {"pending", "threw"}
    /\ LET settled == IF page \notin PageKeys THEN LoadPagePromiseAfter(FALSE)
                       ELSE IF how = "threw" THEN LoadPagePromiseAfter(TRUE)
                       ELSE "pending"
           fadeIn == IF via = "route" THEN FadeInAfter(settled) ELSE "n/a"
       IN  loads' = Append(loads,
             IF page \in PageKeys
             THEN [page |-> page, invoked |-> TRUE,
                   args |-> RenderArgs(page, params, ac),
                   via |-> via, renderer |-> how, promise |-> settled,
                   logged |-> how = "threw", fadeIn |-> fadeIn]
             ELSE \* no case of the switch matches
                  [page |-> page, invoked |-> FALSE, args |-> << >>, via |-> via,
                   renderer |-> "none", promise |-> settled,
                   logged |-> FALSE, fadeIn |-> fadeIn])
    \* PageCalendar.render up to its await destroys the calendar and writes
    \* the skeleton; a renderer that threw has written nothing
    /\ calendarShown' = IF page = "calendar" /\ how = "pending" THEN FALSE
                        ELSE calendarShown

\* handleRoute with window.location.hash = h: the route fields and the fade
\* classes are set at once; the loadPage call is left to a $nextTick
\* callback.
HandleRoute(h) ==
    LET str == IF Slice1(h) = << >> THEN <<"home">> ELSE Slice1(h)
        parts == Split(str)
        page == parts[1]
        meta == MetaLookup(page)
        cur == IF meta.truthy THEN page[1] ELSE "home"
    IN  /\ routeParams' = RouteParamsOf(parts)
        /\ currentPage' = cur
        /\ pageTitle' = IF meta.truthy THEN meta.title ELSE JsStr(PageMeta["home"].title)
        /\ pageSubtitle' = IF meta.truthy THEN meta.subtitle
                           ELSE JsStr(PageMeta["home"].subtitle)
        /\ fade' = FadeOut(fade)
        /\ queued' = queued + 1

\* The oldest $nextTick callback of handleRoute runs (Alpine releases the
\* callbacks from a timer task, so other events can come first):
\* this.loadPage(this.currentPage).then(...), with the current page, the
\* route parameters and the company filter as they are now.
RouteTick(how) ==
    /\ queued > 0
    /\ queued' = queued - 1
    /\ LoadPage(currentPage, routeParams, activeCompany, "route", how)
    /\ UNCHANGED <<hash, started, focus, currentPage, pageTitle, pageSubtitle, routeParams,
                   activeCompany, hashEvents, fade>>
    /\ UNCHANGED <<pageVars, auxVars>>

\* The loadPage calls made and those still to come from the callbacks and
\* events that are pending.
LoadsBegun == Len(loads) + queued + hashEvents

\* init(): the initial handleRoute call.
InitialRoute ==
    /\ ~started
    /\ started' = TRUE
    /\ HandleRoute(hash)
    /\ UNCHANGED <<hash, focus, activeCompany, loads, hashEvents, calendarShown>>
    /\ UNCHANGED <<pageVars, auxVars>>

\* The navigation inputs of the router specification.
NavHashes(f) == {LocationHash(frag) :
                   frag \in {<< >>, <<f>>, <<f, "/", "42">>, <<"zz">>, <<"constructor">>}}

\* The company select changes: its model binding stores the value in
\* activeCompany, then onCompanyChange() calls loadPage at once.
OnCompanyChange(c, how) ==
    /\ started
    /\ c \in Companies \cup {<< >>}
    /\ c # activeCompany
    /\ activeCompany' = c
    /\ LoadPage(currentPage, routeParams, c, "filter", how)
    /\ UNCHANGED <<hash, started, focus, currentPage, pageTitle, pageSubtitle, routeParams,
                   queued, hashEvents, fade>>
    /\ UNCHANGED <<pageVars, auxVars>>

\* The promise returned by the renderer of load k settles; loadPage resumes
\* after its await.  outcome: "resolved" (the page is drawn), "failed" (the
\* renderer caught an error itself, drew its error panel and resolved) or
\* "rejected".
RendererSettles(k, outcome) ==
    /\ k \in 1..Len(loads)
    /\ loads[k].renderer = "pending"
    /\ outcome \in {"resolved", "failed", "rejected"}
    /\ loads' = [loads EXCEPT ![k] =
                   [@ EXCEPT !.renderer = outcome,
                             !.promise = LoadPagePromiseAfter(outcome = "rejected"),
                             !.logged = (outcome = "rejected"),
                             !.fadeIn = IF loads[k].via = "route"
                                        THEN FadeInAfter(LoadPagePromiseAfter(outcome = "rejected"))
                                        ELSE @]]
    \* PageCalendar.render after its await writes the calendar or, from its
    \* catch clause, the error panel, whatever a later render has written
    /\ calendarShown' = IF loads[k].page = "calendar" THEN outcome = "resolved"
                        ELSE calendarShown
    /\ UNCHANGED <<hash, started, focus, currentPage, pageTitle, pageSubtitle,
                   routeParams, activeCompany, queued, hashEvents, fade>>
    /\ UNCHANGED <<pageVars, auxVars>>

\* The animation frame requested after load k runs: fade in.
AnimationFrame(k) ==
    /\ k \in 1..Len(loads)
    /\ loads[k].fadeIn = "scheduled"
    /\ loads' = [loads EXCEPT ![k].fadeIn = "applied"]
    /\ fade' = FadeIn(fade)
    /\ UNCHANGED <<hash, started, focus, currentPage, pageTitle, pageSubtitle,
                   routeParams, activeCompany, queued, hashEvents, calendarShown>>
    /\ UNCHANGED <<pageVars, auxVars>>

\* The events of the calendar: FullCalendar's id (a string) and
\* extendedProps.type ("none": no type property).
CalendarEvents ==
    [id : {<<"post-", "42">>, <<"42">>, <<"post-", "7">>, <<"7">>},
     type : {"post", "holiday", "none"}]

\* eventId.replace(/^post-/, '')
PostIdOf_Unstripped(eventId) == eventId
PostIdOf(eventId) ==
    IF eventId # << >> /\ eventId[1] = "post-" THEN Tail(eventId) ELSE eventId

\* window.location.hash after eventClick(info) when it was h before.
HashAfterClick(ev, h) ==
    IF ev.type = "post" THEN <<"#", "post-detail", "/">> \o PostIdOf(ev.id) ELSE h

\* The events of the calendar can be clicked: the render of the calendar
\* that wrote last into #page-calendar drew the calendar (no render checks
\* whether a later one has started), and the calendar is the page shown.
CalendarDrawn ==
    /\ currentPage = "calendar"
    /\ calendarShown

\* eventClick on an event of the drawn calendar: the assignment to
\* window.location.hash and nothing else.  An assignment that changes the
\* fragment fires a hashchange event, which is dispatched in a later task.
CalendarEventClick(ev) ==
    /\ started
    /\ CalendarDrawn
    /\ hash' = HashAfterClick(ev, hash)
    /\ hashEvents' = IF hash' # hash THEN hashEvents + 1 ELSE hashEvents
    /\ UNCHANGED <<started, focus, currentPage, pageTitle, pageSubtitle, routeParams,
                   activeCompany, loads, queued, calendarShown, fade>>
    /\ UNCHANGED <<pageVars, auxVars>>

\* The user changes the fragment (a link of the sidebar, the address bar,
\* the back button): the fragment is set and its hashchange event is fired
\* for a later task.
FragmentNavigation(h) ==
    /\ started
    /\ h \in NavHashes(focus)
    /\ h # hash
    /\ hash' = h
    /\ hashEvents' = hashEvents + 1
    /\ UNCHANGED <<started, focus, currentPage, pageTitle, pageSubtitle, routeParams,
                   activeCompany, loads, queued, calendarShown, fade>>
    /\ UNCHANGED <<pageVars, auxVars>>

\* The oldest pending hashchange event is dispatched: the listener calls
\* handleRoute(), which reads window.location.hash as it is now.
HashChangeEvent ==
    /\ hashEvents > 0
    /\ hashEvents' = hashEvents - 1
    /\ HandleRoute(hash)
    /\ UNCHANGED <<hash, started, focus, activeCompany, loads, calendarShown>>
    /\ UNCHANGED <<pageVars, auxVars>>

\* The page variables while the router is exercised alone.
PageAtRest ==
    /\ pg = "home"
    /\ containerExists = TRUE
    /\ container = Idle
    /\ invs = << >>
    /\ handle = NoChart
    /\ live = {}
    /\ made = 0
    /\ selected = "none"
    /\ clicks = 0
    /\ cached = "null"
    /\ fetches = 0
    /\ ticks = << >>

RouterFields ==
    /\ started = FALSE
    /\ currentPage = "home"
    /\ pageTitle = JsStr(<<"Dashboard">>)
    /\ pageSubtitle = JsStr(<<"Overview of all marketing systems">>)
    /\ routeParams = << >>
    /\ activeCompany = << >>
    /\ loads = << >>
    /\ queued = 0
    /\ hashEvents = 0
    /\ calendarShown = FALSE
    /\ fade = {}

InitRouter ==
    /\ PageAtRest
    /\ AuxAtRest
    /\ RouterFields
    /\ focus \in PageKeys
    /\ hash \in NavHashes(focus)

NextRouter ==
    \/ InitialRoute
    \/ \E h \in NavHashes(focus) : LoadsBegun < MaxLoads /\ FragmentNavigation(h)
    \/ HashChangeEvent
    \/ \E how \in {"pending", "threw"} : RouteTick(how)
    \/ \E c \in Companies \cup {<< >>} : \E how \in {"pending", "threw"} :
          LoadsBegun < MaxLoads /\ OnCompanyChange(c, how)
    \/ \E k \in 1..Len(loads) : \E o \in {"resolved", "rejected"} : RendererSettles(k, o)
    \/ \E k \in 1..Len(loads) : AnimationFrame(k)

SpecRouter == InitRouter /\ [][NextRouter]_vars

\* The steps the event loop takes by itself: a hashchange event is
\* dispatched, a queued callback runs, a renderer promise settles, a
\* requested animation frame runs.
RouterTask ==
    \/ HashChangeEvent
    \/ \E how \in {"pending", "threw"} : RouteTick(how)
    \/ \E k \in 1..Len(loads) : \E o \in {"resolved", "rejected"} : RendererSettles(k, o)
    \/ \E k \in 1..Len(loads) : AnimationFrame(k)

\* The event loop does not stop while one of these steps is waiting.
SpecRouterLive == SpecRouter /\ WF_vars(RouterTask)

\* The router with the calendar as the page navigated to, and clicks on the
\* calendar's events.
InitClicks ==
    /\ PageAtRest
    /\ AuxAtRest
    /\ RouterFields
    /\ focus = "calendar"
    /\ hash \in NavHashes(focus)

\* One load more than the router specification allows, so that a second
\* click, a navigation or a change of the company filter can come between
\* a click and the dispatch of its hashchange event.
MaxClickLoads == MaxLoads + 1

\* The animation frames of the fade (SpecRouterLive) change the fade classes
\* only and are not among the steps taken here.
NextClicks ==
    \/ InitialRoute
    \/ \E ev \in CalendarEvents : LoadsBegun < MaxClickLoads /\ CalendarEventClick(ev)
    \/ \E h \in NavHashes(focus) : LoadsBegun < MaxClickLoads /\ FragmentNavigation(h)
    \/ HashChangeEvent
    \/ \E how \in {"pending", "threw"} : RouteTick(how)
    \/ \E c \in Companies \cup {<< >>} : \E how \in {"pending", "threw"} :
          LoadsBegun < MaxClickLoads /\ OnCompanyChange(c, how)
    \/ \E k \in 1..Len(loads) : \E o \in {"resolved", "failed", "rejected"} :
          RendererSettles(k, o)

SpecClicks == InitClicks /\ [][NextClicks]_vars

\* The steps the event loop takes by itself while clicks are exercised.
ClicksTask ==
    \/ HashChangeEvent
    \/ \E how \in {"pending", "threw"} : RouteTick(how)
    \/ \E k \in 1..Len(loads) : \E o \in {"resolved", "failed", "rejected"} :
          RendererSettles(k, o)

SpecClicksLive == SpecClicks /\ WF_vars(ClicksTask)

\* The route computation alone, over every fragment of the bounded alphabet.
InitParse ==
    /\ PageAtRest
    /\ AuxAtRest
    /\ RouterFields
    /\ focus = "home"
    /\ hash \in AllHashes

NextParse == InitialRoute \/ RouteTick("pending")

SpecParse == InitParse /\ [][NextParse]_vars

(***************************************************************************)
(* The API client alone: one call and its response.                        *)
(***************************************************************************)
InitApi ==
    /\ PageAtRest
    /\ RouterAtRest
    /\ AuxAtRest

NextApi ==
    \/ \E params \in ParamObjects : ApiGet(params)
    \/ \E method \in {"POST", "PUT"} : \E body \in RequestBodies : ApiSend(method, body)
    \/ \E st \in Statuses : FetchResponds(st)
    \/ \E how \in BodyOutcomes : JsonSettles(how)
    \/ FetchFails

SpecApi == InitApi /\ [][NextApi]_vars

(***************************************************************************)
(* The AEO table over every answer of the bounded shapes.                  *)
(***************************************************************************)
InitAeo ==
    /\ PageAtRest
    /\ RouterAtRest
    /\ ApiAtRest
    /\ MutAtRest
    /\ ContentAtRest
    /\ DetailAtRest
    /\ aeoBody \in AeoBodies
    /\ aeoTable = AeoPending

NextAeo == AeoRender

SpecAeo == InitAeo /\ [][NextAeo]_vars

(***************************************************************************)
(* The content page alone.                                                 *)
(***************************************************************************)
InitContent ==
    /\ PageAtRest
    /\ RouterAtRest
    /\ ApiAtRest
    /\ MutAtRest
    /\ AeoAtRest
    /\ DetailAtRest
    /\ ctServer \in ArticleStatuses
    /\ ContentFields

NextContent ==
    \/ \E company \in ContentCompanies : ContentRender(company)
    \/ \E k \in 1..MaxContentRenders : \E ok \in BOOLEAN : \E msg \in ActionErrMsgs :
          ContentRenderResponds(k, ok, msg)
    \/ \E val \in FilterValues : ContentFilterChange(val)
    \/ \E val \in SearchValues : ContentSearchInput(val)
    \/ ContentDebounceFires
    \/ ContentSelectArticle
    \/ ContentClosePanel
    \/ \E kind \in {"approve", "publish"} : ContentClickAction(kind)
    \/ \E m \in 1..MaxContentActions : \E ok \in BOOLEAN : \E msg \in ActionErrMsgs :
          ContentActionResponds(m, ok, msg)
    \/ \E m \in 1..MaxContentActions : \E ok \in BOOLEAN : \E msg \in ActionErrMsgs :
          ContentRefreshResponds(m, ok, msg)
    \/ \E m \in 1..MaxContentActions : ContentRedrawTimer(m)

SpecContent == InitContent /\ [][NextContent]_vars

(***************************************************************************)
(* The post-detail page alone.                                             *)
(***************************************************************************)
InitDetail ==
    /\ PageAtRest
    /\ RouterAtRest
    /\ ApiAtRest
    /\ MutAtRest
    /\ AeoAtRest
    /\ ContentAtRest
    /\ pdServer \in [content : PostTexts, status : PostStatuses]
    /\ DetailFields

NextDetail ==
    \/ DetailRender
    \/ \E k \in 1..MaxDetailRenders : \E ok \in BOOLEAN : \E msg \in ActionErrMsgs :
          DetailRenderResponds(k, ok, msg)
    \/ DetailToggleEdit
    \/ \E newContent \in SubmittedTexts : DetailSaveClick(newContent)
    \/ \E s \in 1..MaxSaves : \E ok \in BOOLEAN : \E msg \in ActionErrMsgs :
          DetailSaveResponds(s, ok, msg)
    \/ \E s \in 1..MaxSaves : DetailSaveTimer(s)
    \/ \E kind \in {"approve", "reject", "reschedule"} : \E date \in PromptDates :
          DetailClickAction(kind, date)
    \/ \E m \in 1..MaxDetailActions : \E ok \in BOOLEAN : \E msg \in ActionErrMsgs :
          DetailActionResponds(m, ok, msg)
    \/ DetailFeedbackTimer

SpecDetail == InitDetail /\ [][NextDetail]_vars

(***************************************************************************)
(* The action buttons of the post-detail and content pages: one of the two *)
(* pages is open, with every handler and timer it has.                     *)
(***************************************************************************)
InitMutate ==
    /\ PageAtRest
    /\ RouterAtRest
    /\ ApiAtRest
    /\ AeoAtRest
    /\ mpage \in MutationPages
    /\ ContentFields
    /\ DetailFields
    /\ IF mpage = "content"
       THEN ctServer \in ArticleStatuses /\ DetailAtRest
       ELSE pdServer \in [content : PostTexts, status : PostStatuses] /\ ContentAtRest

\* What happens around an action button: the renders, the selection of the
\* article, the clicks, the answers and the redraw timers.
NextMutate ==
    \/ /\ mpage = "content"
       /\ \/ \E company \in ContentCompanies : ContentRender(company)
          \/ \E k \in 1..MaxContentRenders : \E ok \in BOOLEAN : \E msg \in ActionErrMsgs :
                ContentRenderResponds(k, ok, msg)
          \/ ContentSelectArticle
          \/ ContentClosePanel
          \/ \E kind \in {"approve", "publish"} : ContentClickAction(kind)
          \/ \E m \in 1..MaxContentActions : \E ok \in BOOLEAN : \E msg \in ActionErrMsgs :
                ContentActionResponds(m, ok, msg)
          \/ \E m \in 1..MaxContentActions : \E ok \in BOOLEAN : \E msg \in ActionErrMsgs :
                ContentRefreshResponds(m, ok, msg)
          \/ \E m \in 1..MaxContentActions : ContentRedrawTimer(m)
    \/ /\ mpage = "post-detail"
       /\ \/ DetailRender
          \/ \E k \in 1..MaxDetailRenders : \E ok \in BOOLEAN : \E msg \in ActionErrMsgs :
                DetailRenderResponds(k, ok, msg)
          \/ \E kind \in {"approve", "reject", "reschedule"} : \E date \in PromptDates :
                DetailClickAction(kind, date)
          \/ \E m \in 1..MaxDetailActions : \E ok \in BOOLEAN : \E msg \in ActionErrMsgs :
                DetailActionResponds(m, ok, msg)
          \/ DetailFeedbackTimer

SpecMutate == InitMutate /\ [][NextMutate]_vars

(***************************************************************************)
(* Properties of the page renderers (specification Spec).                  *)
(***************************************************************************)
Last == invs[Len(invs)]
AllSettled == \A i \in 1..Len(invs) : Settled(invs[i])
Completed(inv) == inv.outcome \in {"ok", "rejected", "threw"}
ChartPages == {"home", "quality", "reactivation"}

\* C1: if a required fetch of the most recently invoked render rejected and
\* nothing is in flight any more, the container shows the error panel with
\* that error's (escaped) message.
RejectedFetchEndsInErrorPanel ==
    (Len(invs) > 0 /\ AllSettled /\ Last.outcome = "rejected")
        => /\ container.state = "error"
           /\ container.text = Esc(Last.err)

\* C2: once every render invocation has settled, the container shows the
\* output of the most recently invoked render.
LatestRenderVisible ==
    (containerExists /\ Len(invs) > 0 /\ AllSettled) => container.by = Len(invs)

\* C3: a page renderer never has more than one live chart/calendar instance.
AtMostOneLiveInstance == Cardinality(live) <= 1

\* C4: on a page owning a chart, after two or more chart renderings exactly
\* one chart instance is alive, the one created last (every earlier one was
\* destroyed before its successor was created).
SuccessiveChartsLeaveOne ==
    (pg \in ChartPages /\ made >= 2) => /\ live = {handle}
                                        /\ handle.n = made
TwoChartsRendered == pg = "home" /\ made >= 2 /\ Cardinality(live) = 1

\* C5: once a render of a chart-owning page has completed (success or
\* error), no chart instance created by an earlier render of the page is
\* alive.
CompletedRenderSupersedesCharts ==
    pg \in ChartPages =>
    \A i \in 1..Len(invs) :
        Completed(invs[i]) => \A c \in live : c.by >= i

\* C6: no render() promise (and no init() promise of an Alpine page
\* component) rejects, whatever its requests and its render logic did.
RenderNeverRejects ==
    \A i \in 1..Len(invs) : /\ invs[i].promise # "rejected"
                            /\ invs[i].init # "rejected"
                            /\ invs[i].auto.promise # "rejected"
FailedRenderResolved ==
    \E i \in 1..Len(invs) : /\ invs[i].outcome \in {"rejected", "threw"}
                            /\ invs[i].promise = "resolved"
                            /\ pg = "post-detail"

(***************************************************************************)
(* Properties of the router (specifications SpecRouter and SpecParse).     *)
(***************************************************************************)
LastLoad == loads[Len(loads)]

\* The fragment the route is computed from: the text after '#', or 'home'.
FragmentOf(h) == IF Len(h) <= 1 THEN <<"home">> ELSE SubSeq(h, 2, Len(h))

FirstSlash(str) ==
    IF \E i \in 1..Len(str) : str[i] = "/"
    THEN CHOOSE i \in 1..Len(str) : str[i] = "/" /\ \A j \in 1..(i - 1) : str[j] # "/"
    ELSE Len(str) + 1

FirstSegment(str) == SubSeq(str, 1, FirstSlash(str) - 1)

RECURSIVE Join(_)
Join(segs) ==
    IF Len(segs) = 0 THEN << >>
    ELSE IF Len(segs) = 1 THEN segs[1]
    ELSE segs[1] \o <<"/">> \o Join(Tail(segs))

RouteState == <<hash, currentPage, pageTitle, pageSubtitle, routeParams>>

\* The page a fragment selects: its first segment when pageMeta has a truthy
\* entry under that name, home otherwise.
RoutedPage(h) ==
    LET str == IF Slice1(h) = << >> THEN <<"home">> ELSE Slice1(h)
        page == Split(str)[1]
    IN  IF MetaLookup(page).truthy THEN page[1] ELSE "home"

\* C7: loadPage never rejects; a renderer failure is logged and leaves the
\* router state as it was; every change of the fragment fires one
\* navigation event; every navigation event that is dispatched, also one
\* after a failure, selects the page of the fragment and queues one
\* dispatch, and every dispatch that runs invokes the renderer of the page
\* that is current then.
LoadPageSurvivesFailure ==
    [][/\ \A k \in 1..Len(loads') : loads'[k].promise # "rejected"
       /\ \A k \in 1..Len(loads) :
            (loads[k].renderer = "pending" /\ loads'[k].renderer = "rejected")
               => /\ loads'[k].promise = "resolved"
                  /\ loads'[k].logged
                  /\ UNCHANGED <<RouteState, activeCompany>>
       /\ (hash' # hash) => hashEvents' = hashEvents + 1
       /\ (hashEvents' < hashEvents)
            => /\ hashEvents' = hashEvents - 1
               /\ queued' = queued + 1
               /\ currentPage' = RoutedPage(hash)
       /\ (queued' < queued)
            => /\ queued' = queued - 1
               /\ Len(loads') = Len(loads) + 1
               /\ loads'[Len(loads')].page = currentPage
               /\ loads'[Len(loads')].via = "route"
               /\ (currentPage \in PageKeys => loads'[Len(loads')].invoked)]_vars

NavigationAfterFailure ==
    /\ Len(loads) = 2
    /\ loads[1].renderer \in {"rejected", "threw"}
    /\ loads[1].promise = "resolved"
    /\ loads[2].via = "route"
    /\ loads[2].invoked

\* C8: after handleRoute the current page is the first segment of the
\* fragment when that is a page key, with that page's title and subtitle,
\* and the home page with its title and subtitle otherwise.
RoutePicksPageOrHome ==
    started =>
      LET first == FirstSegment(FragmentOf(hash))
          k == IF Len(first) = 1 /\ first[1] \in PageKeys THEN first[1] ELSE "home"
      IN  /\ currentPage = k
          /\ pageTitle = JsStr(PageMeta[k].title)
          /\ pageSubtitle = JsStr(PageMeta[k].subtitle)

\* The route parameters are the segments after the first one: joined to the
\* first segment with the separator they give back the fragment.
ParamsAreLaterSegments ==
    /\ \A i \in 1..Len(routeParams) : \A j \in 1..Len(routeParams[i]) :
          routeParams[i][j] # "/"
    /\ Join(<<FirstSegment(FragmentOf(hash))>> \o routeParams) = FragmentOf(hash)

\* C9 as stated: the route parameters are the later segments and the
\* post-detail renderer receives that list.
PostDetailReceivesParamList ==
    started =>
      /\ ParamsAreLaterSegments
      /\ (currentPage = "post-detail" /\ Len(loads) >= 1)
            => loads[1].args = <<JsArr(routeParams)>>

\* C9: the route parameters are the later segments; the post-detail renderer
\* receives the first of them as a string, or undefined when there is none.
PostDetailReceivesFirstParam ==
    started =>
      /\ ParamsAreLaterSegments
      /\ (currentPage = "post-detail" /\ Len(loads) >= 1) =>
            loads[1].args = <<IF routeParams = << >> THEN JsUndefined
                              ELSE JsStr(routeParams[1])>>

PostDetail42Routed ==
    /\ started
    /\ hash = <<"#", "post-detail", "/", "42">>
    /\ routeParams = << <<"42">> >>
    /\ Len(loads) = 1
    /\ loads[1].invoked
    /\ loads[1].args = <<JsStr(<<"42">>)>>

\* C10 as stated: a change of the company filter while a page is current
\* invokes that page's renderer once with the new filter value and leaves
\* the route alone.
FilterChangeRendersWithFilter ==
    [][(activeCompany' # activeCompany /\ currentPage \in PageKeys)
         => /\ Len(loads') = Len(loads) + 1
            /\ loads'[Len(loads')].invoked
            /\ loads'[Len(loads')].page = currentPage
            /\ loads'[Len(loads')].args = <<JsStr(activeCompany')>>
            /\ UNCHANGED RouteState]_vars

\* C10: a change of the company filter while a page is current invokes that
\* page's renderer once and leaves the route alone; the renderer receives
\* the new filter value (null when the filter was cleared), except that
\* post-detail receives the first route parameter and settings no argument.
FilterChangeRendersCurrentPage ==
    [][(activeCompany' # activeCompany /\ currentPage \in PageKeys)
         => /\ Len(loads') = Len(loads) + 1
            /\ \A k \in 1..Len(loads) : loads'[k] = loads[k]
            /\ loads'[Len(loads')].invoked
            /\ loads'[Len(loads')].page = currentPage
            /\ loads'[Len(loads')].args =
                 CASE currentPage = "post-detail" ->
                        <<IF routeParams = << >> THEN JsUndefined
                          ELSE JsStr(routeParams[1])>>
                   [] currentPage = "settings" -> << >>
                   [] OTHER -> <<IF activeCompany' = << >> THEN JsNull
                                 ELSE JsStr(activeCompany')>>
            /\ UNCHANGED RouteState]_vars

FilterChangeRendered ==
    /\ Len(loads) = 2
    /\ currentPage = "content"
    /\ activeCompany = <<"us-framing">>
    /\ LastLoad.via = "filter"
    /\ LastLoad.page = "content"
    /\ LastLoad.args = <<JsStr(<<"us-framing">>)>>

(***************************************************************************)
(* Properties of the API client (specification SpecApi).                   *)
(***************************************************************************)
IsDigit(c) == \E d \in 1..10 : DigitChars[d] = c
DigitValue(c) == (CHOOSE d \in 1..10 : DigitChars[d] = c) - 1

RECURSIVE ParseNat(_)
ParseNat(ds) ==
    IF Len(ds) = 0 THEN 0
    ELSE 10 * ParseNat(SubSeq(ds, 1, Len(ds) - 1)) + DigitValue(ds[Len(ds)])

\* The text msg contains the decimal numeral of n.
MentionsNumber(msg, n) ==
    \E i \in 1..Len(msg) : \E j \in i..Len(msg) :
        /\ \A k \in i..j : IsDigit(msg[k])
        /\ ParseNat(SubSeq(msg, i, j)) = n

\* C11: when the response status is not 2xx, the call (get, post or put)
\* rejects with a message that contains the status code and hands no parsed
\* body to the caller.
NonOkRejectsWithStatus ==
    (call.phase = "done" /\ call.responded /\ call.status \notin 200..299)
       => /\ call.result.kind = "rejected"
          /\ call.result.body = "none"
          /\ MentionsNumber(call.result.msg, call.status)

PostAnswered404 ==
    /\ call.method = "POST"
    /\ call.phase = "done"
    /\ call.status = 404
    /\ call.result.kind = "rejected"

\* What a server reads from a query value, by the rules of the URL
\* standard for parsing application/x-www-form-urlencoded: "+" is a space,
\* "%" with two hexadecimal digits is a byte, and the bytes are UTF-8.
HexValue(c) ==
    IF c >= 48 /\ c <= 57 THEN c - 48
    ELSE IF c >= 65 /\ c <= 70 THEN c - 55
    ELSE IF c >= 97 /\ c <= 102 THEN c - 87
    ELSE 16
RECURSIVE QueryBytes(_)
QueryBytes(str) ==
    IF str = << >> THEN << >>
    ELSE IF /\ Head(str) = 37 /\ Len(str) >= 3
            /\ HexValue(str[2]) < 16 /\ HexValue(str[3]) < 16
    THEN <<16 * HexValue(str[2]) + HexValue(str[3])>> \o QueryBytes(SubSeq(str, 4, Len(str)))
    ELSE IF Head(str) = 43 THEN <<32>> \o QueryBytes(Tail(str))
    ELSE <<Head(str)>> \o QueryBytes(Tail(str))
\* The number of bytes of the UTF-8 sequence a lead byte starts.
Utf8Length(b) == IF b < 128 THEN 1 ELSE IF b < 224 THEN 2 ELSE IF b < 240 THEN 3 ELSE 4
RECURSIVE Utf8Decode(_)
Utf8Decode(bytes) ==
    IF bytes = << >> THEN << >>
    ELSE LET n == Utf8Length(Head(bytes))
         IN  IF n > Len(bytes) THEN <<65533>>
             ELSE <<CASE n = 1 -> bytes[1]
                      [] n = 2 -> (bytes[1] - 192) * 64 + (bytes[2] - 128)
                      [] n = 3 -> (bytes[1] - 224) * 4096 + (bytes[2] - 128) * 64
                                     + (bytes[3] - 128)
                      [] OTHER -> (bytes[1] - 240) * 262144 + (bytes[2] - 128) * 4096
                                     + (bytes[3] - 128) * 64 + (bytes[4] - 128)>>
                  \o Utf8Decode(SubSeq(bytes, n + 1, Len(bytes)))
UrlDecode(str) == Utf8Decode(QueryBytes(str))
\* The value as a string of scalar values.
ScalarString(str) == [i \in 1..Len(str) |-> Scalar(str[i])]

\* Query values as browsers write them, for values of ParamValues:
\* R&D is R%26D, a+b=50% is a%2Bb%3D50%25, the string of space, U+0001,
\* DEL, U+00A0, u umlaut, grave accent, "*", "~" is
\* +%01%7F%C2%A0%C3%BC%60*%7E, and U+1F600 with a lone surrogate is
\* %F0%9F%98%80%EF%BF%BD.
KnownQueryValues ==
    { [v |-> <<82, 38, 68>>, q |-> <<82, 37, 50, 54, 68>>],
      [v |-> <<97, 43, 98, 61, 53, 48, 37>>,
       q |-> <<97, 37, 50, 66, 98, 37, 51, 68, 53, 48, 37, 50, 53>>],
      [v |-> <<32, 1, 127, 160, 252, 96, 42, 126>>,
       q |-> <<43, 37, 48, 49, 37, 55, 70, 37, 67, 50, 37, 65, 48, 37, 67, 51, 37, 66, 67,
               37, 54, 48, 42, 37, 55, 69>>],
      [v |-> <<128512, 55357>>,
       q |-> <<37, 70, 48, 37, 57, 70, 37, 57, 56, 37, 56, 48, 37, 69, 70, 37, 66, 70,
               37, 66, 68>>] }

Supplied(val) ==
    /\ val # JsNull
    /\ val # JsUndefined
    /\ val # JsStr(<< >>)

\* C18: the query of an API.get request has, for every supplied parameter
\* that is not null, undefined or '', exactly one pair with its value, and
\* no pair for any other name.
QueryHasSuppliedParams ==
    call.method = "GET" =>
      /\ \A i \in 1..Len(call.params) :
            Supplied(call.params[i].v) =>
               /\ Cardinality({j \in 1..Len(call.query) :
                                 call.query[j].k = call.params[i].k}) = 1
               /\ \A j \in 1..Len(call.query) :
                     call.query[j].k = call.params[i].k =>
                        /\ UrlDecode(call.query[j].v)
                              = ScalarString(StringOf(call.params[i].v))
                        /\ \A e \in KnownQueryValues :
                              e.v = StringOf(call.params[i].v) => call.query[j].v = e.q
      /\ \A j \in 1..Len(call.query) :
            \E i \in 1..Len(call.params) :
                /\ call.params[i].k = call.query[j].k
                /\ Supplied(call.params[i].v)

GetWithOmittedAndZero ==
    /\ call.method = "GET"
    /\ Len(call.params) = 2
    /\ call.params[1].v = JsNull
    /\ call.params[2].v = JsNum(0)
    /\ Len(call.query) = 1
    /\ call.query[1].k = call.params[2].k

(***************************************************************************)
(* Further properties of the page renderers (specifications Spec, SpecLive *)
(* and SpecDom).                                                           *)
(***************************************************************************)
MachineStates == {"idle", "loading", "content", "error"}
MachineSteps == {<<"idle", "loading">>, <<"loading", "content">>, <<"loading", "error">>,
                 <<"content", "loading">>, <<"error", "loading">>}

\* C12: the visible state of the container changes only along idle->loading,
\* loading->success, loading->error, success->loading and error->loading; the
\* result of one render is never replaced by the result of another render
\* without the loading state in between.
OnlyMachineTransitions ==
    [][(/\ container.state \in MachineStates
        /\ container'.state \in MachineStates
        /\ \/ container'.state # container.state
           \/ /\ container.state \in {"content", "error"}
              /\ container'.by # container.by)
         => <<container.state, container'.state>> \in MachineSteps]_vars

\* C13: with every request eventually answered, the container does not show
\* the loading placeholder forever.
LoadingEventuallyLeaves ==
    (container.state = "loading") ~> (container.state # "loading")

FailedInitLeftLoading ==
    /\ pg = "settings"
    /\ Len(invs) = 1
    /\ AllSettled
    /\ invs[1].outcome = "rejected"
    /\ invs[1].auto.outcome = "rejected"
    /\ container.by = 1
    /\ container.state = "content"

\* C14: a render invoked while the container is absent issues no request,
\* writes nothing and leaves the module state (cached container reference,
\* chart/calendar handle, selection) as it was.
MissingContainerIsNoOp ==
    [][(~containerExists /\ Len(invs') = Len(invs) + 1)
         => /\ invs'[Len(invs')].pending = {}
            /\ fetches' = fetches
            /\ UNCHANGED <<container, handle, live, made, selected, cached>>]_vars

\* C16 as stated: every render invocation with its container present shows
\* the loading placeholder before it first suspends.
RenderShowsLoading ==
    [][(containerExists /\ Len(invs') = Len(invs) + 1)
         => container' = Loading(Len(invs'))]_vars

NoPostId(a) == a \in {JsUndefined, JsNull, JsStr(<< >>)}

\* C16: every render invocation with its container present shows the
\* loading placeholder before it first suspends, except the post-detail
\* renderer invoked without a post id: it writes the no-post-selected
\* placeholder, issues no request and returns.
RenderShowsLoadingOrSelect ==
    [][\A a \in ArgsOf(pg) :
         (containerExists /\ Len(invs') = Len(invs) + 1 /\ Render(a))
            => IF pg = "post-detail" /\ NoPostId(a)
               THEN /\ container'.state = "select"
                    /\ container'.by = Len(invs')
                    /\ fetches' = fetches
                    /\ invs'[Len(invs')].promise = "resolved"
               ELSE container' = Loading(Len(invs'))]_vars

NoPostSelectedShown ==
    /\ pg = "post-detail"
    /\ Len(invs) = 2
    /\ invs[1].outcome = "ok"
    /\ invs[2].outcome = "select"
    /\ container.state = "select"
    /\ container.by = 2

\* C17: on the home page a rejection of the scheduled-posts request alone
\* does not fail the render, which ends in success with the empty default
\* posts list; a rejection of the summary, funnel or GBP request ends in the
\* error panel with that rejection's message.
OptionalPostsDegrade ==
    [][pg = "home" =>
         \A i \in {j \in 1..Len(invs) : invs'[j] # invs[j]} : \A m \in ErrMsgs :
            /\ (Respond(i, "posts", Failure(m), TRUE) /\ invs[i].nullRead = "none")
                  => /\ invs'[i].outcome \in {"inflight", "ok"}
                     /\ invs'[i].outcome = "ok"
                           => container' = Content(i, "fetched, no posts")
            /\ ("posts" \in invs[i].defaults /\ invs'[i].outcome = "ok")
                  => container' = Content(i, "fetched, no posts")
            /\ \A r \in {"summary", "funnel", "gbp"} :
                  Respond(i, r, Failure(m), TRUE)
                     => /\ invs'[i].outcome = "rejected"
                        /\ container' = ErrorPanel(i, m)]_vars

HomeWithoutPosts ==
    /\ pg = "home"
    /\ Len(invs) > 0
    /\ Last.outcome = "ok"
    /\ container.state = "content"
    /\ container.data = "fetched, no posts"

\* The requests a step of the content page issues: render's two GETs, the
\* POST of a click on Approve or Publish, and the two GETs of the refresh a
\* handler makes once its POST has been answered.
ContentRequestsIssued ==
    \/ Len(ctRenders') = Len(ctRenders) + 1
    \/ Len(ctActs') = Len(ctActs) + 1
    \/ \E m \in 1..Len(ctActs) :
          ctActs[m].phase = "acting" /\ ctActs'[m].phase = "refreshing"

\* The last render of the content page has ended in the error state, and
\* its panel is what the container shows.
ContentInErrorState ==
    /\ Len(ctRenders) > 0
    /\ ctRenders[Len(ctRenders)].phase = "failed"
    /\ ctView.kind = "error"

\* C19: once a render has ended in the error state, the only step that
\* issues a request for the page is a new invocation of render.
NoRequestInErrorStateButRender ==
    [][(ContentInErrorState /\ ContentRequestsIssued)
          => Len(ctRenders') = Len(ctRenders) + 1]_vars

(***************************************************************************)
(* Fade transition of the router (specification SpecRouterLive).           *)
(***************************************************************************)
FadedOut == "page-fade-enter" \in fade /\ "page-fade-active" \notin fade
FadedIn == "page-fade-active" \in fade /\ "page-fade-enter" \notin fade

\* The navigations so far: those whose callback has run, and those whose
\* callback is queued.
Navigations == Cardinality({k \in 1..Len(loads) : loads[k].via = "route"}) + queued
\* Load k is the one dispatched by the callback of the n-th navigation.
LoadOfNavigation(k, n) ==
    /\ k <= Len(loads)
    /\ loads[k].via = "route"
    /\ Cardinality({j \in 1..k : loads[j].via = "route"}) = n
AwaitsFadeIn(n) == Navigations >= n
FadeInApplied(n) == \E k \in 1..Len(loads) : LoadOfNavigation(k, n) /\ loads[k].fadeIn = "applied"

\* C20: every navigation puts the shared container in the faded-out state
\* at its start; the fade-in of a navigation is applied only after that
\* navigation's renderer promise has settled and loadPage has resolved, and
\* it is eventually applied, also when the renderer failed.
FadeFollowsNavigation ==
    /\ [][/\ (queued' = queued + 1) => FadedOut'
          /\ \A k \in 1..Len(loads) :
               (loads[k].fadeIn # "applied" /\ loads'[k].fadeIn = "applied")
                  => /\ loads[k].via = "route"
                     /\ loads[k].renderer # "pending"
                     /\ loads[k].promise = "resolved"
                     /\ FadedIn']_vars
    /\ \A n \in 1..MaxLoads : AwaitsFadeIn(n) ~> FadeInApplied(n)

FadedInAfterFailure ==
    /\ Len(loads) >= 1
    /\ loads[1].via = "route"
    /\ loads[1].renderer = "rejected"
    /\ loads[1].fadeIn = "applied"
    /\ FadedIn

(***************************************************************************)
(* Properties of the action buttons (specification SpecMutate).            *)
(***************************************************************************)
\* The steps of a handler of the content page: its action request is
\* answered with success, its refresh is answered, its 800 ms timer fires.
ContentActionSucceeds(m) == ctActs[m].phase = "acting" /\ ctActs'[m].phase = "refreshing"
ContentRefetched(m) == ctActs[m].phase = "refreshing" /\ ctActs'[m].phase = "timer"
ContentRedrawn(m) == ctActs[m].phase = "timer" /\ ctActs'[m].phase = "done"
\* The action request of a handler of the post-detail page is answered
\* with success.
DetailActionSucceeds(m) == pdReqs[m].phase = "acting" /\ pdReqs'[m].phase = "done"

\* C15: when an action (approve, publish on the content page; approve,
\* reject, reschedule on the post-detail page) has succeeded, the data is
\* requested again after the action request completed, and the redraw that
\* follows shows data answered to a request after that moment, never the
\* data shown before with a patched status.  Content: the success step
\* changes neither the cached nor the drawn data, the refresh stores the
\* server's answer, and the redraw draws the cached data, which is not the
\* data drawn when the button was clicked.  Post-detail: the success step
\* invokes render (skeleton, one more request), and a post is drawn only
\* from the answer to a render's request.
RedrawnFromRefetchedData ==
    [][/\ \A m \in 1..Len(ctActs) :
            /\ ContentActionSucceeds(m)
                  => /\ ctArticles' = ctArticles /\ ctStats' = ctStats
                     /\ ctView'.kind = "content"
                           => (ctView.kind = "content"
                                  /\ ctView'.articles = ctView.articles
                                  /\ ctView'.stats = ctView.stats)
            /\ ContentRefetched(m)
                  => /\ ctArticles' = Data(ctActs[m].co, -m, ctServer)
                     /\ ctStats' = Data(ctActs[m].co, -m, ctServer)
            /\ ContentRedrawn(m)
                  => /\ ctView'.kind = "content"
                     /\ ctView'.articles = ctArticles
                     /\ ctView'.stats = ctStats
                     /\ ctArticles.by # ctActs[m].before.articles.by
       /\ \A m \in 1..Len(pdReqs) :
            DetailActionSucceeds(m)
               => /\ pdView' = PdSkeleton
                  /\ pdRenders' = Append(pdRenders, "pending")
       /\ (pdView'.kind = "content"
              /\ (pdView.kind # "content" \/ pdView'.status # pdView.status))
            => \E k \in 1..Len(pdRenders) :
                  /\ pdRenders[k] = "pending" /\ pdRenders'[k] = "done"
                  /\ pdView' = PdPost(pdServer)]_vars

PublishedThenRedrawn ==
    /\ mpage = "content"
    /\ Len(ctActs) >= 1
    /\ ctActs[1].kind = "publish"
    /\ ctActs[1].phase = "done"
    /\ ctView.kind = "content"
    /\ ctView.articles.by = -1
    /\ ctView.articles.status = "published"

\* The loads started by navigations, and the most recent of them.
RouteLoads == {k \in 1..Len(loads) : loads[k].via = "route"}
LatestRouteLoad == CHOOSE k \in RouteLoads : \A j \in RouteLoads : j <= k

\* C22: whenever the shared container is faded in, the render started by
\* the most recent navigation has completed; the completion of an earlier
\* navigation's render never fades the container in while a later one's
\* render is still in flight.
FadedInOnlyAfterLatestRender ==
    (FadedIn /\ RouteLoads # {}) => loads[LatestRouteLoad].renderer # "pending"

\* C25: a click on a calendar event of type 'post' with id 'post-<n>' or
\* '<n>' sets the fragment to #post-detail/<n> and nothing else; the
\* hashchange event dispatched while the fragment is #post-detail/<n> makes
\* post-detail the current page with <n> as its parameter and queues the
\* dispatch; the dispatch that runs with that page and parameter invokes
\* the post-detail renderer for post <n>; and once a click has set the
\* fragment to #post-detail/<n>, either the fragment is changed again or
\* the router comes to rest with post-detail as the current page and the
\* post-detail renderer invoked for post <n> by its last dispatch.  A click
\* on an event of another type changes neither the fragment nor the
\* current page, and fires no event.
PostNumbers == {<<"42">>, <<"7">>}
PostFragment(n) == <<"#", "post-detail", "/">> \o n
LastRouted == CHOOSE k \in 1..Len(loads) :
                 /\ loads[k].via = "route"
                 /\ \A j \in (k + 1)..Len(loads) : loads[j].via # "route"
PostOpened(n) ==
    /\ hashEvents = 0
    /\ queued = 0
    /\ currentPage = "post-detail"
    /\ loads[LastRouted].page = "post-detail"
    /\ loads[LastRouted].invoked
    /\ loads[LastRouted].args = <<JsStr(n)>>
EventClickOpensPost ==
    /\ [][/\ \A ev \in CalendarEvents :
              CalendarEventClick(ev)
                 => /\ currentPage' = currentPage
                    /\ routeParams' = routeParams
                    /\ IF ev.type = "post"
                       THEN \E n \in PostNumbers :
                               /\ ev.id \in {<<"post-">> \o n, n}
                               /\ hash' = PostFragment(n)
                               /\ hash' # hash => hashEvents' = hashEvents + 1
                       ELSE hash' = hash /\ hashEvents' = hashEvents
          /\ \A n \in PostNumbers :
               /\ (hashEvents' < hashEvents /\ hash = PostFragment(n))
                     => /\ currentPage' = "post-detail"
                        /\ routeParams' = <<n>>
                        /\ queued' = queued + 1
               /\ (queued' < queued /\ currentPage = "post-detail" /\ routeParams = <<n>>)
                     => /\ Len(loads') = Len(loads) + 1
                        /\ loads'[Len(loads')].page = "post-detail"
                        /\ loads'[Len(loads')].invoked
                        /\ loads'[Len(loads')].args = <<JsStr(n)>>]_vars
    /\ \A n \in PostNumbers :
          (hash = PostFragment(n) /\ hashEvents > 0)
             ~> (hash # PostFragment(n) \/ PostOpened(n))

PrefixedEventOpened42 ==
    /\ Len(loads) = 2
    /\ loads[1].page = "calendar"
    /\ loads[1].renderer = "resolved"
    /\ hash = PostFragment(<<"42">>)
    /\ PostOpened(<<"42">>)
    /\ loads[2].page = "post-detail"
    /\ loads[2].args = <<JsStr(<<"42">>)>>

(***************************************************************************)
(* Properties of the content page (specification SpecContent).             *)
(***************************************************************************)
\* Render invocation k completes in this step.
ContentRenderCompletes(k) ==
    /\ k <= Len(ctRenders)
    /\ ctRenders[k].phase = "pending"
    /\ ctRenders'[k].phase # "pending"

\* C23: after any render of the content page has completed, successfully or
\* not, the module holds no state of an earlier render: the status filter
\* and the search query are empty, no article is selected, and the cached
\* list and stats are the ones answered to this invocation (none when it
\* failed).
CompletedRenderHoldsNoOldState ==
    [][\A k \in 1..MaxContentRenders :
          ContentRenderCompletes(k)
             => /\ ctFilter' = ""
                /\ ctQuery' = << >>
                /\ ctSelected' = NoArticle
                /\ ctStats' = IF ctRenders'[k].phase = "done"
                              THEN Data(ctRenders[k].company, k, ctServer) ELSE NoFetched
                /\ ctArticles' = ctStats']_vars

\* This step is the invocation or the completion of a render.
ContentRenderStep ==
    \/ Len(ctRenders') = Len(ctRenders) + 1
    \/ \E k \in 1..MaxContentRenders : ContentRenderCompletes(k)

ContentRenderInFlight == \E k \in 1..Len(ctRenders) : ctRenders[k].phase = "pending"

\* C26: while a render's fetch is in flight the container shows the loading
\* placeholder, and after a failed render the error panel, until a render
\* is invoked or completes: no debounce timer and no delayed redraw of an
\* earlier approve/publish replaces them by content drawn from older data.
LoadingAndErrorStayUntilRender ==
    [][(/\ \/ ctView.kind = "loading" /\ ContentRenderInFlight
           \/ ctView.kind = "error"
        /\ ~ContentRenderStep)
          => ctView' = ctView]_vars

\* C27: in every reachable state the cached stats, the cached article list
\* and the cached company filter belong together: both were fetched with
\* the company value stored in _company.
ContentCacheBelongsToCompany ==
    /\ ctStats # NoFetched => ctStats.co = ctCompany
    /\ ctArticles # NoFetched => ctArticles.co = ctCompany

\* C30: after the user closed the detail panel, no article is selected and
\* the panel stays closed until the user selects an article again or a new
\* render runs; an approve/publish request completing meanwhile selects
\* nothing.
ClosedPanelStaysClosed ==
    ctClosed => /\ ctSelected = NoArticle
                /\ ctView.panel = NoArticle

\* The approve/publish request of handler m fails in this step.
ContentMutationFails(m) ==
    /\ m <= Len(ctActs)
    /\ ctActs[m].phase = "acting"
    /\ ctActs'[m].phase = "failed"

FailureTexts == {<<"Failed: ">> \o msg : msg \in ActionErrMsgs}

\* C24: when a mutation request fails, no re-fetch and no re-render happens,
\* a failure message containing the error's message is shown inline and the
\* action button is enabled again, so the data displayed is the data shown
\* before the action.
FailedMutationShowsMessage ==
    [][\A m \in 1..MaxContentActions :
          ContentMutationFails(m)
             => /\ ctStats' = ctStats /\ ctArticles' = ctArticles
                /\ ctView'.stats = ctActs[m].before.stats
                /\ ctView'.articles = ctActs[m].before.articles
                /\ ctView'.feedback \in FailureTexts
                /\ ctActs[m].kind \notin ctView'.disabled]_vars

(***************************************************************************)
(* Properties of the post-detail page (specification SpecDetail).          *)
(***************************************************************************)
StatusRequestsInFlight == {m \in 1..Len(pdReqs) : pdReqs[m].phase = "acting"}

\* C28: on the post-detail page at most one status-changing request
\* (approve, reject or reschedule) for the displayed post is in flight at
\* any time.
OneStatusRequestAtATime == Cardinality(StatusRequestsInFlight) <= 1

\* The update request of save s settles in this step.
SaveSettles(s) ==
    /\ s <= Len(pdSaves)
    /\ pdSaves[s].phase = "saving"
    /\ pdSaves'[s].phase # "saving"

\* C29: on post-detail save, a failed update leaves the displayed and the
\* cached post content unchanged and shows a failure message; after a
\* successful one both equal the submitted text; in both cases the save
\* button ends enabled and no other request is issued.
SaveUpdatesOrLeavesContent ==
    [][\A s \in 1..MaxSaves :
          SaveSettles(s)
             => /\ IF pdSaves'[s].phase = "saved"
                   THEN /\ pdView'.content = pdSaves[s].text
                        /\ pdView'.post = pdSaves[s].text
                   ELSE /\ pdView'.content = pdView.content
                        /\ pdView'.post = pdView.post
                        /\ \E msg \in ActionErrMsgs :
                              pdView'.saveFeedback = <<"Save failed: ">> \o msg
                /\ ~pdView'.saveDisabled
                /\ pdRenders' = pdRenders
                /\ Len(pdReqs') = Len(pdReqs)]_vars

(***************************************************************************)
(* Properties of the AEO table (specification SpecAeo).                    *)
(***************************************************************************)
\* The queries array of the answer is empty: { queries: [] } or [].
EmptyQueriesAnswer ==
    \/ aeoBody.t = "object" /\ aeoBody.prop.t = "array" /\ aeoBody.prop.items = << >>
    \/ aeoBody.t = "array" /\ aeoBody.items = << >>

\* C21: when /aeo/queries answers an empty queries array, the rendered
\* table consists of the "No queries tracked" empty-state row alone, never
\* of no row at all.
EmptyQueriesShowEmptyState ==
    (aeoTable # AeoPending /\ EmptyQueriesAnswer)
       => /\ Len(aeoTable) = 1
          /\ aeoTable[1].kind = "empty-state"
          /\ aeoTable[1].text = <<"No queries tracked">>

EmptyWrappedArrayRendered ==
    /\ aeoBody = Body("object", << >>, Val("array", << >>))
    /\ aeoTable = <<EmptyStateRow>>

====
